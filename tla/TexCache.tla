------------------------------ MODULE TexCache ------------------------------
(***************************************************************************)
(* The cache of decoded textures (texcache.cpp) of the software renderer,  *)
(* and the mapping of video memory banks that invalidates it.  A texture   *)
(* is drawn long after it was decoded, while software remaps the banks it  *)
(* came from, fills them with something else and maps them again.          *)
(*                                                                         *)
(* A bank holds one value, a texture is one slot of texture memory; a 4x4  *)
(* texture has an index table in slot 1 and uses all of palette memory.    *)
(* 4x4 textures and palettes are compared in two different ways.           *)
(***************************************************************************)
EXTENDS Integers, Sequences, FiniteSets

CONSTANTS BankOrder,   \* the banks, in the order in which they are mapped
          Purposes,    \* what a bank may be mapped as
          Texels,      \* the contents of a bank; 0 in cleared memory
          TexKeys,     \* the textures: texture parameters and palette address
          MaxCacheSize \* textures from which the cache is emptied by half

Banks == {BankOrder[i] : i \in 1 .. Len(BankOrder)}
IndexSlot == 1
TexSlots == {IndexSlot} \cup {k.slot : k \in TexKeys}
PalSlots == {k.pal : k \in TexKeys}
TexPurpose == {[use |-> "texture", slot |-> s] : s \in TexSlots}
PalPurpose == {[use |-> "palette", slot |-> s] : s \in PalSlots}
Lcdc == [use |-> "lcdc", slot |-> 0]

ASSUME BankOrderAssumption == BankOrder \in Seq(Banks)
ASSUME TexCacheAssumption ==
    /\ Purposes \in [Banks -> SUBSET (TexPurpose \cup PalPurpose)]
    /\ TexKeys \subseteq [mode : {"direct", "palette", "4x4"}, slot : Nat, pal : Nat]
    /\ 0 \in Texels /\ MaxCacheSize \in Nat \ {0}

VARIABLES
    bankMemory,    \* what each bank holds
    purpose,       \* what each bank is mapped as (VRAMCNT)
    index,         \* the cached textures
    paletteDump,   \* palette memory when it was last checked
    setup,         \* setupTextures is collecting the textures of a frame
    polyTexKeys,   \* the textures of the frame that is being rendered
    texturesMapped \* the texture mapping has changed since the last reset

texVars == <<bankMemory, purpose, index, paletteDump, setup, polyTexKeys, texturesMapped>>

(* MMU.texInfo: of several banks mapped to one slot the last one counts.   *)
TexInfo(ps) ==
    [x \in TexPurpose \cup PalPurpose |->
        LET here == {i \in 1 .. Len(BankOrder) : ps[BankOrder[i]] = x}
        IN  IF here = {} THEN "blank" ELSE BankOrder[CHOOSE i \in here : \A j \in here : j <= i]]

Seen(ps, x) == LET b == TexInfo(ps)[x] IN IF b = "blank" THEN 0 ELSE bankMemory[b]

Texture(ps, s) == Seen(ps, [use |-> "texture", slot |-> s])
Palette(ps) == [s \in PalSlots |-> Seen(ps, [use |-> "palette", slot |-> s])]

(* The copies kept to compare with.  "we are considering 4x4 textures to   *)
(* have a palette size of 0".                                              *)
Dump(k) == [texture |-> Texture(purpose, k.slot),
            index   |-> IF k.mode = "4x4" THEN Texture(purpose, IndexSlot) ELSE 0,
            palette |-> IF k.mode = "palette" THEN Palette(purpose)[k.pal] ELSE 0]

(* What decoding the texture from memory gives.                            *)
Decoded(k) == [dump |-> Dump(k), all |-> IF k.mode = "4x4" THEN Palette(purpose) ELSE <<>>]

ZeroPalette == [p \in PalSlots |-> 0]
Cached == DOMAIN index

TexInit ==
    /\ bankMemory = [b \in Banks |-> 0]
    /\ purpose = [b \in Banks |-> Lcdc]
    /\ index = [k \in {} |-> 0] /\ paletteDump = ZeroPalette
    /\ setup = FALSE /\ polyTexKeys = {} /\ texturesMapped = FALSE

-----------------------------------------------------------------------------
(* Software writes a bank where the mapping lets it: banks mapped as       *)
(* textures or palettes are in no page of the address space.               *)
WriteBank(b, v) ==
    /\ ~setup /\ purpose[b] = Lcdc
    /\ bankMemory' = [bankMemory EXCEPT ![b] = v]
    /\ UNCHANGED <<purpose, index, paletteDump, setup, polyTexKeys, texturesMapped>>

(* Only suspected, without the verdict of the palette memory.              *)
SuspectedOnly(item, k, paletteDirty) == [item EXCEPT !.suspectedInvalid = TRUE]

Suspected(item, k, paletteDirty) ==
    [item EXCEPT !.suspectedInvalid = TRUE,
                 !.assumedInvalid = @ \/ (k.mode = "4x4" /\ paletteDirty)]

(* MMU_VRAMmapControl, and TexCache_Invalidate when the slots changed;     *)
(* the threads may be drawing the textures meanwhile.                      *)
MMU_VRAMmapControl(b, p) ==
    LET ps == [purpose EXCEPT ![b] = p]
        paletteDirty == Palette(ps) # paletteDump
    IN  /\ ~setup /\ p # purpose[b]
        /\ purpose' = ps
        /\ IF TexInfo(ps) # TexInfo(purpose)
             THEN /\ index' = [k \in Cached |-> Suspected(index[k], k, paletteDirty)]
                  /\ paletteDump' = Palette(ps)
                  /\ texturesMapped' = TRUE
             ELSE UNCHANGED <<index, paletteDump, texturesMapped>>
        /\ UNCHANGED <<bankMemory, setup, polyTexKeys>>

(* BeginRender and the end of setupTextures.                               *)
BeginSetup ==
    /\ ~setup /\ polyTexKeys = {} /\ texturesMapped
    /\ setup' = TRUE
    /\ UNCHANGED <<bankMemory, purpose, index, paletteDump, polyTexKeys, texturesMapped>>

EndSetup ==
    /\ setup /\ polyTexKeys # {}
    /\ setup' = FALSE
    /\ UNCHANGED <<bankMemory, purpose, index, paletteDump, polyTexKeys, texturesMapped>>

(* A cached texture is returned as it is, unless it is suspected and its   *)
(* copies differ from memory, or it is assumed invalid.                    *)
Accepted(k) ==
    /\ k \in Cached /\ ~index[k].assumedInvalid
    /\ index[k].suspectedInvalid => index[k].decoded.dump = Dump(k)

With(d, k) ==
    [x \in DOMAIN d \cup {k} |->
        IF x = k THEN [suspectedInvalid |-> FALSE, assumedInvalid |-> FALSE, decoded |-> Decoded(k)]
        ELSE d[x]]

(* TexCache::evict: textures in an arbitrary order until half is left.     *)
Evicted(D, target) ==
    IF Cardinality(D) < target THEN {D}
    ELSE {E \in SUBSET D : Cardinality(E) = target \div 2}

(* A scan that evicts at once.                                             *)
ScanAndEvict(k) ==
    \E D \in Evicted(Cached \cup {k}, MaxCacheSize) :
      index' = [x \in D |-> With(index, k)[x]]

(* TexCache::scan.                                                         *)
Scan(k) ==
    index' = IF Accepted(k) THEN [index EXCEPT ![k].suspectedInvalid = FALSE] ELSE With(index, k)

SetTexture(k) ==
    /\ setup
    /\ Scan(k)
    /\ polyTexKeys' = polyTexKeys \cup {k}
    /\ UNCHANGED <<bankMemory, purpose, paletteDump, setup, texturesMapped>>

(* RenderFinish: the threads are done with the frame.                      *)
TexRenderFinish ==
    /\ ~setup /\ polyTexKeys # {}
    /\ \E D \in Evicted(Cached, MaxCacheSize) : index' = [k \in D |-> index[k]]
    /\ polyTexKeys' = {}
    /\ UNCHANGED <<bankMemory, purpose, paletteDump, setup, texturesMapped>>

(* MMU_Reset, MMU_VRAM_unmap_all and TexCache_Reset; the copy of palette   *)
(* memory stays.                                                           *)
TexReset ==
    /\ ~setup /\ polyTexKeys = {}
    /\ bankMemory' = [b \in Banks |-> 0]
    /\ purpose' = [b \in Banks |-> Lcdc]
    /\ index' = [k \in {} |-> 0]
    /\ texturesMapped' = FALSE
    /\ UNCHANGED <<paletteDump, setup, polyTexKeys>>

TexNext ==
    \/ \E b \in Banks, v \in Texels : WriteBank(b, v)
    \/ \E b \in Banks : \E p \in Purposes[b] \cup {Lcdc} : MMU_VRAMmapControl(b, p)
    \/ BeginSetup \/ EndSetup
    \/ \E k \in TexKeys : SetTexture(k)
    \/ TexRenderFinish \/ TexReset

TexSpec == TexInit /\ [][TexNext]_texVars

-----------------------------------------------------------------------------
TexTypeOK ==
    /\ bankMemory \in [Banks -> Texels]
    /\ \A b \in Banks : purpose[b] \in Purposes[b] \cup {Lcdc}
    /\ Cached \subseteq TexKeys
    /\ \A k \in Cached : {index[k].suspectedInvalid, index[k].assumedInvalid} \subseteq BOOLEAN
    /\ paletteDump \in [PalSlots -> Texels]
    /\ setup \in BOOLEAN /\ polyTexKeys \subseteq TexKeys /\ texturesMapped \in BOOLEAN

(* "we need to do a byte-for-byte comparison to re-establish that it is    *)
(* valid": the textures collected for a frame are what decoding them from  *)
(* memory gives, however banks were filled and remapped since, also 4x4    *)
(* textures, which carry no copy of their palette.                         *)
TexturesFresh == setup => \A k \in polyTexKeys : k \in Cached /\ index[k].decoded = Decoded(k)

(* "eviction must happen after the entire 3d frame runs": a texture that   *)
(* the polygons of the frame point to is not deleted, nor deleted and      *)
(* decoded anew, while it is collected or drawn.                           *)
FrameTexturesKept ==
    [][\A k \in polyTexKeys \cap polyTexKeys' :
         k \in DOMAIN index' /\ index'[k].decoded = index[k].decoded]_texVars
=============================================================================
