------------------------------ MODULE Channel ------------------------------
(***************************************************************************)
(* What the IPC FIFO promises the two CPUs: one bounded first-in first-out *)
(* channel per sender, which the sender alone may empty, and whose reader  *)
(* gets the oldest accepted word.  Nothing is dropped silently, nothing is *)
(* reordered, nothing is delivered twice.                                  *)
(***************************************************************************)
EXTENDS Naturals, Sequences

CONSTANTS Procs, Words, Depth

VARIABLES chan,     \* chan[p]: the words p has sent and that were not yet read
          readVal   \* the word the last successful read returned

chanVars == <<chan, readVal>>

ChanInit ==
    /\ chan = [p \in Procs |-> << >>]
    /\ readVal \in Words

ChanSend(p, w) ==
    /\ Len(chan[p]) < Depth
    /\ chan' = [chan EXCEPT ![p] = Append(@, w)]
    /\ UNCHANGED readVal

ChanRecv(p) ==
    /\ chan[p] # << >>
    /\ readVal' = Head(chan[p])
    /\ chan' = [chan EXCEPT ![p] = Tail(@)]

ChanClear(p) ==
    /\ chan' = [chan EXCEPT ![p] = << >>]
    /\ UNCHANGED readVal

ChanReset ==
    /\ chan' = [p \in Procs |-> << >>]
    /\ UNCHANGED readVal

(* A read that finds nothing (or a disabled FIFO) returns a word that was  *)
(* never sent: it leaves the channels alone.                               *)
ChanReadNothing ==
    /\ readVal' = 0
    /\ UNCHANGED chan

ChanNext ==
    \/ \E p \in Procs : ChanRecv(p) \/ ChanClear(p) \/ \E w \in Words : ChanSend(p, w)
    \/ ChanReset
    \/ ChanReadNothing

ChanSpec == ChanInit /\ [][ChanNext]_chanVars
=============================================================================
