------------------------------- MODULE PrimSign -------------------------------
(***************************************************************************)
(* The sign primitive (src/libfreerdp/primitives/prim_sign.c): sign_16s    *)
(* sets pDst[i] to the sign (-1, 0, 1) of the INT16 pSrc[i].               *)
(* primitives_init_sign picks general_sign_16s, or ssse3_sign_16s when the *)
(* CPU has SSE3 and SSSE3.  The SSSE3 version runs four loops: single      *)
(* elements until pDst is 16-byte aligned, 32-element blocks (four aligned *)
(* 128-bit stores), 8-element blocks, then the leftovers.                  *)
(*                                                                         *)
(* Each loop iteration is a step.  The pointers are byte addresses from    *)
(* the buffers' base addresses DstBase and SrcBase; a 128-bit vector op    *)
(* handles 8 elements with one _mm_sign_epi16.                             *)
(***************************************************************************)
EXTENDS Integers

CONSTANTS
  Lens,        \* the lengths sign_16s is called with
  DstBases,    \* pDst's address modulo 32
  SrcBases     \* pSrc's address modulo 32

MaxLen == CHOOSE n \in Lens : \A m \in Lens : m <= n
Unwritten == 2                       \* not a sign value

\* The source buffer: negative, zero and positive INT16 values, the
\* extremes included.
Src(i) == CASE i % 4 = 0 -> -32768 [] i % 4 = 1 -> 0
            [] i % 4 = 2 -> 32767  [] OTHER -> -1

\* The element operation of lines 37, 69 and 140, and what
\* _mm_sign_epi16(1, x) gives for each lane.
Sign(v) == IF v < 0 THEN -1 ELSE IF v > 0 THEN 1 ELSE 0

VARIABLES
  impl,      \* prims->sign_16s: "general" or "ssse3"
  pc,        \* where the running function is
  n,         \* the len argument
  dBase, sBase,
  si, di,    \* sptr and dptr, as element indices
  len,       \* the local len
  count,     \* the block counter
  dst,       \* pDst[0 .. MaxLen-1]
  oob,       \* an element outside 0..n-1 was written
  misaligned \* a 128-bit aligned store or load met an unaligned address

vars == <<impl, pc, n, dBase, sBase, si, di, len, count, dst, oob, misaligned>>

DAddr == dBase + 2 * di
SAddr == sBase + 2 * si

\* Write `k` elements from si/di on, as k single steps or one vector op.
Put(k) ==
  /\ dst' = [i \in DOMAIN dst |->
               IF i \in di..(di + k - 1) THEN Sign(Src(si + i - di)) ELSE dst[i]]
  /\ oob' = (oob \/ di < 0 \/ di + k > n)
  /\ si' = si + k
  /\ di' = di + k

(***************************************************************************)
(* Selection and general_sign_16s                                          *)
(***************************************************************************)

\* primitives_init_sign, then a call sign_16s(pSrc, pDst, len).
Init ==
  /\ \E sse3, ssse3 \in BOOLEAN : impl = IF sse3 /\ ssse3 THEN "ssse3" ELSE "general"
  /\ pc = IF impl = "ssse3" THEN "entry" ELSE "general"
  /\ n \in Lens /\ dBase \in DstBases /\ sBase \in SrcBases
  /\ si = 0 /\ di = 0 /\ len = n /\ count = 0
  /\ dst = [i \in 0..MaxLen - 1 |-> Unwritten]
  /\ oob = FALSE /\ misaligned = FALSE

\* general_sign_16s: while (len--) one element.
GeneralStep ==
  /\ pc = "general"
  /\ IF len = 0
     THEN pc' = "done" /\ UNCHANGED <<si, di, dst, oob, len>>
     ELSE Put(1) /\ len' = len - 1 /\ UNCHANGED pc
  /\ UNCHANGED <<impl, n, dBase, sBase, count, misaligned>>

(***************************************************************************)
(* ssse3_sign_16s                                                          *)
(***************************************************************************)

\* Short buffers and an odd pDst go to the general version.
Entry ==
  /\ pc = "entry"
  /\ pc' = IF len < 16 \/ dBase % 2 = 1 THEN "general" ELSE "prologue"
  /\ UNCHANGED <<impl, n, dBase, sBase, si, di, len, count, dst, oob, misaligned>>

\* Mutant of Prologue: alignment sought to 8 bytes only (dptr & 0x07).
PrologueAlign8 ==
  /\ pc = "prologue"
  /\ IF DAddr % 8 # 0
     THEN /\ Put(1) /\ len' = len - 1
          /\ pc' = IF len - 1 = 0 THEN "done" ELSE "prologue"
          /\ UNCHANGED count
     ELSE /\ count' = len \div 32
          /\ len' = len - (len \div 32) * 32
          /\ pc' = "blocks32"
          /\ UNCHANGED <<si, di, dst, oob>>
  /\ UNCHANGED <<impl, n, dBase, sBase, misaligned>>

\* Mutant of Prologue: the blocks' counter taken before the local len is
\* reduced by the blocks it covers.
PrologueKeepsLen ==
  /\ pc = "prologue"
  /\ IF DAddr % 16 # 0
     THEN /\ Put(1) /\ len' = len - 1
          /\ pc' = IF len - 1 = 0 THEN "done" ELSE "prologue"
          /\ UNCHANGED count
     ELSE /\ count' = len \div 32
          /\ pc' = "blocks32"
          /\ UNCHANGED <<si, di, dst, oob, len>>
  /\ UNCHANGED <<impl, n, dBase, sBase, misaligned>>

\* Seek 16-byte alignment of dptr one element at a time (returning if len
\* runs out), then count = len >> 5, len -= count << 5.
Prologue ==
  /\ pc = "prologue"
  /\ IF DAddr % 16 # 0
     THEN /\ Put(1) /\ len' = len - 1
          /\ pc' = IF len - 1 = 0 THEN "done" ELSE "prologue"
          /\ UNCHANGED count
     ELSE /\ count' = len \div 32
          /\ len' = len - (len \div 32) * 32
          /\ pc' = "blocks32"
          /\ UNCHANGED <<si, di, dst, oob>>
  /\ UNCHANGED <<impl, n, dBase, sBase, misaligned>>

\* Mutant of Blocks32: len -= count << 3 left out before the 8-element
\* blocks, so the leftover loop runs over elements already written.
Blocks32KeepsLen ==
  /\ pc = "blocks32"
  /\ IF count > 0
     THEN /\ Put(32) /\ count' = count - 1
          /\ misaligned' = (misaligned \/ DAddr % 16 # 0)
          /\ UNCHANGED <<len, pc>>
     ELSE /\ count' = len \div 8
          /\ pc' = "blocks8"
          /\ UNCHANGED <<si, di, dst, oob, misaligned, len>>
  /\ UNCHANGED <<impl, n, dBase, sBase>>

\* One 32-element block: four loads (lddqu when sptr is unaligned, aligned
\* loads otherwise, a choice made by sptr's alignment before the loop) and
\* four aligned stores; at the end count = len >> 3, len -= count << 3.
Blocks32 ==
  /\ pc = "blocks32"
  /\ IF count > 0
     THEN /\ Put(32) /\ count' = count - 1
          /\ misaligned' = (misaligned \/ DAddr % 16 # 0)
          /\ UNCHANGED <<len, pc>>
     ELSE /\ count' = len \div 8
          /\ len' = len - (len \div 8) * 8
          /\ pc' = "blocks8"
          /\ UNCHANGED <<si, di, dst, oob, misaligned>>
  /\ UNCHANGED <<impl, n, dBase, sBase>>

\* One 8-element block: a load and an aligned store.
Blocks8 ==
  /\ pc = "blocks8"
  /\ IF count > 0
     THEN /\ Put(8) /\ count' = count - 1
          /\ misaligned' = (misaligned \/ DAddr % 16 # 0)
          /\ UNCHANGED <<len, pc>>
     ELSE pc' = "leftover" /\ UNCHANGED <<si, di, dst, oob, count, len, misaligned>>
  /\ UNCHANGED <<impl, n, dBase, sBase>>

\* The leftovers, one element each.
Leftover ==
  /\ pc = "leftover"
  /\ IF len = 0
     THEN pc' = "done" /\ UNCHANGED <<si, di, dst, oob, len>>
     ELSE Put(1) /\ len' = len - 1 /\ UNCHANGED pc
  /\ UNCHANGED <<impl, n, dBase, sBase, count, misaligned>>

\* The call has returned PRIMITIVES_SUCCESS.
Returned == pc = "done" /\ UNCHANGED vars

Next == GeneralStep \/ Entry \/ Prologue \/ Blocks32 \/ Blocks8 \/ Leftover \/ Returned

Spec == Init /\ [][Next]_vars /\ WF_vars(Next)

(***************************************************************************)
(* Properties                                                              *)
(***************************************************************************)
TypeOK ==
  /\ impl \in {"general", "ssse3"}
  /\ pc \in {"entry", "general", "prologue", "blocks32", "blocks8", "leftover", "done"}
  /\ len \in 0..MaxLen /\ count \in 0..MaxLen
  /\ si \in 0..MaxLen /\ di \in 0..MaxLen
  /\ dst \in [0..MaxLen - 1 -> {-1, 0, 1, Unwritten}]

\* When sign_16s returns, pDst[0..len-1] holds the sign of every pSrc
\* element, whichever version ran and however the buffers are aligned, and
\* nothing outside the buffer was written.
SignComputed ==
  pc = "done" =>
    /\ \A i \in 0..n - 1 : dst[i] = Sign(Src(i))
    /\ ~oob

\* Every aligned 128-bit store of ssse3_sign_16s is to a 16-byte aligned
\* address, for every alignment of pDst that passes the odd-address check.
AlignedStores == ~misaligned
=============================================================================
