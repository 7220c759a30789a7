------------------------- MODULE FilledBlocksProofs -------------------------
(***************************************************************************)
(* Proofs about FilledBlocks. The argument is that a block is hashed only  *)
(* while it is private to the request that hashes it: what lies past full  *)
(* in a table is unhashed and in no other table. So a block that the       *)
(* connector has settled is never hashed again behind its back, and what   *)
(* it tracks for a running request is the blocks of the request's table    *)
(* from its last load on, up to the rows of this step that it has not gone *)
(* through yet. A block is tracked as a member of a set: a load in the     *)
(* middle of a prefill has its blocks listed twice.                        *)
(***************************************************************************)
EXTENDS FilledBlocks, SequenceTheorems, WellFoundedInduction, TLAPS

-----------------------------------------------------------------------------
(* The inductive invariant. *)

\* Where the scheduler is in its step, and whom the step is about.
StepOK ==
  /\ pc = "between" => rows = {}
  /\ alloc # {} => pc \in {"running", "tight", "waiting"}
  /\ \A r, s \in alloc : r = s
  /\ \A r \in rows \cup alloc : phase[r] = "running"
  /\ \A r \in Requests \ rows : diff[r] = << >>
  /\ \A r \in resumed : diff[r] = table[r]

\* The load that update_state_after_alloc is about to be told of lies in the
\* hashed part of the table, no earlier than the request's first load, and
\* with it the blocks the request got in the middle of its prefill.
AllocOK ==
  \A r \in alloc :
    /\ loadAt <= full[r]
    /\ loadAt > 0 => 0 < fillAt[r] /\ fillAt[r] <= loadAt
    /\ loadAt = 0 => fillAt[r] = 0
    /\ r \notin resumed => /\ In(diff[r]) \subseteq From(table[r], loadAt)
                           /\ Len(diff[r]) <= StepBlocks

\* Only a running request has blocks, and what it counts lies within them.
TablesOK ==
  \A r \in Requests :
    /\ phase[r] # "running" => table[r] = << >> /\ fillAt[r] = 0
    /\ full[r] <= Len(table[r]) /\ fillAt[r] <= Len(table[r])
    /\ \A i, j \in 1 .. Len(table[r]) : table[r][i] = table[r][j] => i = j

\* The blocks of a table that are not hashed yet are in no other table.
Private ==
  \A r \in Requests : \A k \in full[r] + 1 .. Len(table[r]) :
    /\ hash[table[r][k]] = 0
    /\ \A s \in Requests \ {r} : table[r][k] \notin In(table[s])

\* The history of approximate blocks is what it stands for.
ApproxOK ==
  /\ \A b \in approx : hash[b] # 0
  /\ \A r \in Requests : \A b \in From(table[r], fillAt[r]) :
       hash[b] # 0 => b \in approx

\* The blocks that the entry f covers are those of the table of r from the
\* entry's first on, and the entry is not much longer than the table.
Covers(f, r) ==
  /\ From(f.table, f.first) = From(table[r], f.first)
  /\ Len(f.table) <= Len(table[r]) + StepBlocks

\* The load of the entry f is one of r, in the hashed part of its table.
LoadOf(f, r) == 0 < fillAt[r] /\ fillAt[r] <= f.first /\ f.first <= full[r]

\* What the connector has of a request covers the engine's table, but for the
\* blocks of this step's row, which it goes through in build_connector_meta.
\* The row of a resumed request is its whole table.
Synced(r) ==
  LET f == tracked[r] IN
  /\ LoadOf(f, r)
  /\ r \notin resumed =>
       /\ From(f.table, f.first) \cup In(diff[r]) = From(table[r], f.first)
       /\ Len(f.table) + Len(diff[r]) <= Len(table[r]) + StepBlocks

\* A settled block is hashed no more, or it was left in the cache on purpose,
\* and the blocks behind the cursor are settled.
SettledOK(f, r) ==
  /\ \A b \in f.settled :
       /\ \E k \in 1 .. full[r] : table[r][k] = b
       /\ hash[b] # 0 => ~Evicts(r) /\ b \in left
  /\ \A k \in 1 .. Len(f.table) :
       f.first <= k /\ k < f.scanFrom => f.table[k] \in f.settled
  /\ f.scanFrom <= Len(f.table) + 1 /\ f.first <= Len(f.table)

TrackedOK ==
  \A r \in Requests \ alloc :
    phase[r] = "running" /\ tracked[r] # NoFill => Synced(r) /\ SettledOK(tracked[r], r)

GInv ==
  TypeOK /\ StepOK /\ AllocOK /\ TablesOK /\ Private /\ ApproxOK /\ TrackedOK

\* The blocks that the next pass over the entry of r goes through.
Due(r) ==
  IF r \in alloc THEN From(table[r], loadAt)
  ELSE From(ExtendBlockTable(r, tracked[r]).table, tracked[r].first)

\* Without reuse of ids a fill is tracked as long as it runs, and what is
\* approximate and cached is still to be gone through in this step.
Covered ==
  /\ \A r \in Requests : phase[r] # "none" => use[r] > 0
  /\ \A r \in gone : phase[r] = "none" /\ use[r] = MaxUses
  /\ \A r \in Requests \ alloc : fillAt[r] > 0 => tracked[r] # NoFill
  /\ \A b \in approx \ left : \E r \in rows \cup alloc : b \in Due(r)

-----------------------------------------------------------------------------
(* Lists of blocks, and the least of a set of numbers. *)

\* Every set of natural numbers that is not empty has a least member.
LEMMA LeastNumber ==
  ASSUME NEW T, T \subseteq Nat, T # {}
  PROVE  \E x \in T : \A y \in T : x <= y
<1> DEFINE R == {ss \in Nat \X Nat : ss[1] < ss[2]}
<1>1. IsWellFoundedOn(R, Nat)
  BY NatLessThanWellFounded DEF OpToRel
<1>2. \E x \in T : \A y \in T : <<y, x>> \notin R
  <2> HIDE DEF R
  <2> QED
    BY <1>1, WFMin
<1>3. PICK x \in T : \A y \in T : <<y, x>> \notin R
  BY <1>2
<1>4. ASSUME NEW y \in T PROVE x <= y
  <2>1. x \in Nat /\ y \in Nat
    OBVIOUS
  <2>2. ASSUME y < x PROVE <<y, x>> \in R
    <3>1. <<y, x>> \in Nat \X Nat /\ <<y, x>>[1] = y /\ <<y, x>>[2] = x
      BY <2>1
    <3> QED
      BY <2>2, <3>1
  <2> QED
    BY <1>3, <2>1, <2>2
<1> QED
  BY <1>4

\* A list of at most m blocks is a sequence of blocks.
LEMMA ListIsSeq ==
  ASSUME NEW m \in Int, NEW s \in Lists(m)
  PROVE  s \in Seq(Blocks) /\ Len(s) \in Nat /\ Len(s) <= m
<1>1. PICK n \in 0 .. m : s \in [1 .. n -> Blocks]
  BY DEF Lists
<1>2. n \in Nat /\ n <= m
  OBVIOUS
<1>3. s \in Seq(Blocks)
  BY <1>1, <1>2, SeqDef
<1>4. Len(s) = n
  <2>1. DOMAIN s = 1 .. n /\ DOMAIN s = 1 .. Len(s) /\ Len(s) \in Nat
    BY <1>1, <1>3, LenProperties
  <2> QED
    BY <1>2, <2>1
<1> QED
  BY <1>2, <1>3, <1>4

\* And a sequence of at most m blocks is a list.
LEMMA SeqIsList ==
  ASSUME NEW m \in Int, NEW s \in Seq(Blocks), Len(s) <= m
  PROVE  s \in Lists(m)
<1>1. Len(s) \in Nat /\ s \in [1 .. Len(s) -> Blocks]
  BY LenProperties
<1>2. Len(s) \in 0 .. m
  BY <1>1
<1> QED
  BY <1>1, <1>2 DEF Lists

\* The bounds are numbers.
LEMMA Caps ==
  /\ PromptBlocks \in Nat \ {0} /\ StepBlocks \in Nat \ {0}
  /\ TrackedCap \in Nat /\ TrackedCap = PromptBlocks + StepBlocks
  BY BoundAssumption DEF TrackedCap

\* The tables of the engine, of the step and of the connector are sequences.
LEMMA TablesAreSeqs ==
  ASSUME TypeOK, NEW r \in Requests
  PROVE  /\ table[r] \in Seq(Blocks) /\ Len(table[r]) \in 0 .. PromptBlocks
         /\ diff[r] \in Seq(Blocks) /\ Len(diff[r]) \in 0 .. PromptBlocks
         /\ tracked[r].table \in Seq(Blocks)
         /\ Len(tracked[r].table) \in 0 .. TrackedCap
         /\ full[r] \in Nat /\ fillAt[r] \in Nat /\ loadAt \in Nat
         /\ tracked[r] \in Fill /\ tracked[r].first \in Nat
         /\ tracked[r].scanFrom \in Nat
<1>1. PromptBlocks \in Int /\ TrackedCap \in Int
  BY Caps
<1>2. /\ table[r] \in Tables /\ diff[r] \in Tables
      /\ tracked[r].table \in Lists(TrackedCap)
  BY DEF TypeOK, Fill
<1>3. /\ table[r] \in Seq(Blocks) /\ Len(table[r]) \in 0 .. PromptBlocks
      /\ diff[r] \in Seq(Blocks) /\ Len(diff[r]) \in 0 .. PromptBlocks
  BY <1>1, <1>2, ListIsSeq DEF Tables
<1>4. /\ tracked[r].table \in Seq(Blocks)
      /\ Len(tracked[r].table) \in 0 .. TrackedCap
  BY <1>1, <1>2, ListIsSeq
<1> QED
  BY <1>3, <1>4, Caps DEF TypeOK, Fill

\* The empty fill is one, and the empty list a table.
LEMMA NoFillType == << >> \in Tables /\ Len(<< >>) = 0 /\ NoFill \in Fill
<1>1. << >> \in Seq(Blocks) /\ Len(<< >>) = 0
  BY EmptySeq
<1>2. << >> \in Tables /\ << >> \in Lists(TrackedCap)
  <2>1. /\ PromptBlocks \in Int /\ Len(<< >>) <= PromptBlocks
        /\ TrackedCap \in Int /\ Len(<< >>) <= TrackedCap
    BY <1>1, Caps
  <2> QED
    BY <1>1, <2>1, SeqIsList DEF Tables
<1> QED
  BY <1>1, <1>2, Caps DEF NoFill, Fill

\* The blocks from a position on, when the list grows.
LEMMA FromConcat ==
  ASSUME NEW u \in Seq(Blocks), NEW v \in Seq(Blocks), NEW first \in Nat,
         0 < first, first <= Len(u) + 1
  PROVE  /\ From(u \o v, first) = From(u, first) \cup In(v)
         /\ Len(u \o v) = Len(u) + Len(v) /\ u \o v \in Seq(Blocks)
<1> DEFINE t == u \o v
<1>1. /\ t \in Seq(Blocks) /\ Len(t) = Len(u) + Len(v)
      /\ Len(u) \in Nat /\ Len(v) \in Nat
      /\ \A i \in 1 .. Len(u) + Len(v) :
           t[i] = IF i <= Len(u) THEN u[i] ELSE v[i - Len(u)]
  BY ConcatProperties, LenProperties
<1> HIDE DEF t
<1>2. ASSUME NEW b \in From(t, first) PROVE b \in From(u, first) \cup In(v)
  <2>1. PICK k \in 1 .. Len(t) : b = t[k] /\ k >= first
    BY DEF From
  <2>2. CASE k <= Len(u)
    <3>1. k \in 1 .. Len(u) /\ b = u[k]
      BY <1>1, <2>1, <2>2
    <3> QED
      BY <3>1, <2>1 DEF From
  <2>3. CASE k > Len(u)
    <3>1. k - Len(u) \in 1 .. Len(v) /\ b = v[k - Len(u)]
      BY <1>1, <2>1, <2>3
    <3> QED
      BY <3>1 DEF In
  <2> QED
    BY <1>1, <2>2, <2>3
<1>3. ASSUME NEW b \in From(u, first) PROVE b \in From(t, first)
  <2>1. PICK k \in 1 .. Len(u) : b = u[k] /\ k >= first
    BY DEF From
  <2>2. k \in 1 .. Len(t) /\ t[k] = b
    BY <1>1, <2>1
  <2> QED
    BY <2>1, <2>2 DEF From
<1>4. ASSUME NEW b \in In(v) PROVE b \in From(t, first)
  <2>1. PICK i \in 1 .. Len(v) : v[i] = b
    BY DEF In
  <2>2. PICK k \in Nat : k = i + Len(u)
    BY <1>1
  <2>3. k \in 1 .. Len(t) /\ k >= first /\ t[k] = b
    <3>1. k \in 1 .. Len(t) /\ k > Len(u) /\ k - Len(u) = i /\ k >= first
      BY <1>1, <2>2
    <3> QED
      BY <1>1, <2>1, <3>1
  <2> QED
    BY <2>3 DEF From
<1> QED
  BY <1>1, <1>2, <1>3, <1>4 DEF t

\* The invariant holds before the first step.
LEMMA InitGInv == Init => GInv /\ Covered
<1> SUFFICES ASSUME Init PROVE GInv /\ Covered
  OBVIOUS
<1> USE NoFillType, BoundAssumption DEF Init
<1>1. TypeOK
  BY DEF TypeOK
<1>2. StepOK /\ AllocOK /\ TablesOK /\ Private
  BY DEF StepOK, AllocOK, TablesOK, Private, In
<1>3. ApproxOK /\ TrackedOK
  BY DEF ApproxOK, TrackedOK, From
<1>4. Covered
  BY DEF Covered
<1> QED
  BY <1>1, <1>2, <1>3, <1>4 DEF GInv

-----------------------------------------------------------------------------
(***************************************************************************)
(* vLLM hashes blocks: Grow and Allocate.                                  *)
(***************************************************************************)

\* The hash table h, once t has the blocks new and is hashed from lo to hi,
\* is the old one but for the blocks hashed and the new ones.
HashedOK(h, t, new, lo, hi) ==
  /\ h \in [Blocks -> 0 .. PromptBlocks]
  /\ \A b \in Blocks :
       (\A k \in lo .. hi : t[k] # b)
         => h[b] = IF b \in In(new) THEN 0 ELSE hash[b]

\* vLLM's hashing does that.
LEMMA HashedFacts ==
  ASSUME hash \in [Blocks -> 0 .. PromptBlocks], NEW t \in Seq(Blocks),
         NEW new, NEW lo \in Nat \ {0}, NEW hi \in Nat, hi <= PromptBlocks
  PROVE  HashedOK(Hashed(t, new, lo, hi), t, new, lo, hi)
<1>0. PromptBlocks \in Nat
  BY BoundAssumption
<1>1. ASSUME NEW b \in Blocks, \E k \in lo .. hi : t[k] = b
      PROVE  (CHOOSE k \in lo .. hi : t[k] = b) \in 0 .. PromptBlocks
  BY <1>0, <1>1
<1>2. ASSUME NEW b \in Blocks
      PROVE  (IF \E k \in lo .. hi : t[k] = b
              THEN CHOOSE k \in lo .. hi : t[k] = b
              ELSE IF b \in In(new) THEN 0 ELSE hash[b]) \in 0 .. PromptBlocks
  BY <1>0, <1>1
<1> QED
  BY <1>2 DEF Hashed, HashedOK

\* A request r gets the table t with the blocks new, hashed from lo to hi and
\* filled from fa on. It hashes only blocks that are in no other table.
HashesOwn(r, t, new, lo, hi, fa) ==
  /\ t \in Seq(Blocks) /\ new \in Seq(Blocks)
  /\ lo \in Nat \ {0} /\ hi \in Nat /\ fa \in Nat
  /\ lo <= hi + 1 /\ hi <= Len(t) /\ Len(t) <= PromptBlocks /\ fa <= Len(t)
  /\ \A i, j \in 1 .. Len(t) : t[i] = t[j] => i = j
  /\ In(new) \subseteq {t[k] : k \in lo .. Len(t)}
  /\ \A k \in lo .. Len(t) :
       /\ t[k] \in In(new) \/ hash[t[k]] = 0
       /\ \A s \in Requests \ {r} : t[k] \notin In(table[s])
  /\ \A k \in 1 .. lo - 1 : \A s \in Requests \ {r} :
       \A j \in full[s] + 1 .. Len(table[s]) : t[k] # table[s][j]

\* The engine's part of such a step.
Hashes(r, t, new, lo, hi, fa) ==
  /\ table' = [table EXCEPT ![r] = t]
  /\ full' = [full EXCEPT ![r] = hi]
  /\ fillAt' = [fillAt EXCEPT ![r] = fa]
  /\ hash' = Hashed(t, new, lo, hi)
  /\ approx' = {b \in (approx \ In(new)) \cup From(t, fa) : hash'[b] # 0}
  /\ left' = left \ In(new)
  /\ phase' \in [Requests -> {"none", "waiting", "running", "preempted"}]
  /\ phase'[r] = "running"
  /\ \A s \in Requests \ {r} : phase'[s] = phase[s]

\* It leaves the other tables' blocks as they were, and those of t before lo.
OthersKept(r, t, lo, fa) ==
  /\ \A s \in Requests \ {r} : \A b \in In(table[s]) :
       hash'[b] = hash[b] /\ (b \in left => b \in left')
  /\ \A k \in 1 .. lo - 1 :
       hash'[t[k]] = hash[t[k]] /\ (t[k] \in left => t[k] \in left')
  /\ \A b \in approx' \ left' : b \in approx \ left \/ b \in From(t, fa)

\* The engine's variables keep their types.
PoolTyped ==
  /\ table \in [Requests -> Tables]
  /\ full \in [Requests -> 0 .. PromptBlocks]
  /\ fillAt \in [Requests -> 0 .. PromptBlocks]
  /\ hash \in [Blocks -> 0 .. PromptBlocks]
  /\ approx \subseteq Blocks /\ left \subseteq Blocks

\* Such a step leaves all tables as the invariant has them.
LEMMA HashStep ==
  ASSUME TypeOK, TablesOK, Private, ApproxOK, NEW r \in Requests,
         NEW t, NEW new, NEW lo, NEW hi, NEW fa,
         HashesOwn(r, t, new, lo, hi, fa), Hashes(r, t, new, lo, hi, fa)
  PROVE  /\ PoolTyped' /\ TablesOK' /\ Private' /\ ApproxOK'
         /\ OthersKept(r, t, lo, fa)
<1> USE DEF HashesOwn, Hashes
<1>0. /\ PromptBlocks \in Nat /\ Len(t) \in Nat /\ Len(new) \in Nat
      /\ \A k \in 1 .. Len(t) : t[k] \in Blocks
  BY BoundAssumption, LenProperties, ElementOfSeq
<1>1. \A s \in Requests : /\ table[s] \in Seq(Blocks) /\ Len(table[s]) \in Nat
                          /\ full[s] \in Nat /\ fillAt[s] \in Nat
                          /\ In(table[s]) \subseteq Blocks
  <2> TAKE s \in Requests
  <2>1. table[s] \in Seq(Blocks) /\ Len(table[s]) \in Nat
    BY TablesAreSeqs
  <2>2. In(table[s]) \subseteq Blocks
    BY <2>1, ElementOfSeq DEF In
  <2> QED
    BY <2>1, <2>2, <1>0 DEF TypeOK
<1>2. hash \in [Blocks -> 0 .. PromptBlocks] /\ hi <= PromptBlocks
  BY <1>0 DEF TypeOK
<1>3. /\ hash' \in [Blocks -> 0 .. PromptBlocks]
      /\ \A b \in Blocks : (\A k \in lo .. hi : t[k] # b)
           => hash'[b] = IF b \in In(new) THEN 0 ELSE hash[b]
  <2>1. HashedOK(Hashed(t, new, lo, hi), t, new, lo, hi)
    BY <1>2, HashedFacts
  <2>2. HashedOK(hash', t, new, lo, hi)
    BY <2>1
  <2> QED
    BY <2>2 DEF HashedOK
<1>4. \A s \in Requests \ {r} : \A b \in In(table[s]) :
        hash'[b] = hash[b] /\ b \notin In(new)
  <2> TAKE s \in Requests \ {r}
  <2> TAKE b \in In(table[s])
  <2>1. \A k \in lo .. Len(t) : t[k] # b
    OBVIOUS
  <2>2. b \notin In(new) /\ b \in Blocks
    BY <2>1, <1>1
  <2>3. \A k \in lo .. hi : t[k] # b
    BY <2>1, <1>0
  <2> QED
    BY <1>3, <2>2, <2>3
<1>5. \A k \in 1 .. lo - 1 :
        hash'[t[k]] = hash[t[k]] /\ t[k] \notin In(new)
  <2> TAKE k \in 1 .. lo - 1
  <2>1. k \in 1 .. Len(t) /\ t[k] \in Blocks
    BY <1>0
  <2>2. \A j \in lo .. Len(t) : t[j] # t[k]
    BY <2>1, <1>0
  <2>3. t[k] \notin In(new)
    BY <2>2
  <2>4. \A j \in lo .. hi : t[j] # t[k]
    BY <2>2, <1>0
  <2> QED
    BY <1>3, <2>1, <2>3, <2>4
<1>6. \A k \in hi + 1 .. Len(t) : hash'[t[k]] = 0
  <2> TAKE k \in hi + 1 .. Len(t)
  <2>1. k \in lo .. Len(t) /\ k \in 1 .. Len(t) /\ t[k] \in Blocks
    BY <1>0
  <2>2. \A j \in lo .. hi : t[j] # t[k]
    BY <2>1, <1>0
  <2> QED
    BY <1>3, <2>1, <2>2
<1>7. \A s \in Requests : /\ s # r => /\ table'[s] = table[s]
                                      /\ full'[s] = full[s]
                                      /\ fillAt'[s] = fillAt[s]
                          /\ s = r => /\ table'[s] = t /\ full'[s] = hi
                                      /\ fillAt'[s] = fa
  BY DEF TypeOK
<1>8. /\ table' \in [Requests -> Tables]
      /\ full' \in [Requests -> 0 .. PromptBlocks]
      /\ fillAt' \in [Requests -> 0 .. PromptBlocks]
  <2>1. t \in Tables
    BY <1>0, SeqIsList DEF Tables
  <2>2. hi \in 0 .. PromptBlocks /\ fa \in 0 .. PromptBlocks
    BY <1>0
  <2> QED
    BY <2>1, <2>2 DEF TypeOK
<1>9. From(t, fa) \subseteq Blocks
  BY <1>0 DEF From
<1>10. approx' \subseteq Blocks /\ left' \subseteq Blocks
  BY <1>9 DEF TypeOK
<1>11. TablesOK'
  <2> SUFFICES ASSUME NEW s \in Requests
               PROVE  /\ phase'[s] # "running"
                           => table'[s] = << >> /\ fillAt'[s] = 0
                      /\ full'[s] <= Len(table'[s])
                      /\ fillAt'[s] <= Len(table'[s])
                      /\ \A i, j \in 1 .. Len(table'[s]) :
                           table'[s][i] = table'[s][j] => i = j
    BY DEF TablesOK
  <2> QED
    BY <1>7 DEF TablesOK
<1>12. Private'
  <2> SUFFICES ASSUME NEW s \in Requests,
                      NEW k \in full'[s] + 1 .. Len(table'[s])
               PROVE  /\ hash'[table'[s][k]] = 0
                      /\ \A q \in Requests \ {s} : table'[s][k] \notin In(table'[q])
    BY DEF Private, In
  <2>1. CASE s = r
    <3>1. k \in hi + 1 .. Len(t) /\ k \in lo .. Len(t) /\ table'[s] = t
      BY <2>1, <1>7, <1>0
    <3> QED
      BY <2>1, <3>1, <1>6, <1>7
  <2>2. CASE s # r
    <3>1. /\ table'[s] = table[s] /\ k \in full[s] + 1 .. Len(table[s])
          /\ k \in 1 .. Len(table[s])
      BY <2>2, <1>7, <1>1
    <3>2. table[s][k] \in In(table[s])
      BY <3>1 DEF In
    <3>3. /\ hash[table[s][k]] = 0
          /\ \A q \in Requests \ {s} : table[s][k] \notin In(table[q])
      BY <3>1 DEF Private
    <3>4. table[s][k] \notin In(t)
      <4> SUFFICES ASSUME NEW i \in 1 .. Len(t), t[i] = table[s][k]
                   PROVE  FALSE
        BY DEF In
      <4>1. CASE i \in lo .. Len(t)
        BY <4>1, <3>2, <2>2
      <4>2. CASE i \in 1 .. lo - 1
        BY <4>2, <3>1, <2>2
      <4> QED
        BY <4>1, <4>2, <1>0
    <3> QED
      BY <2>2, <3>1, <3>2, <3>3, <3>4, <1>4, <1>7
  <2> QED
    BY <2>1, <2>2
<1>13. ApproxOK'
  <2>1. \A b \in approx' : hash'[b] # 0
    OBVIOUS
  <2>2. ASSUME NEW s \in Requests, NEW b \in From(table'[s], fillAt'[s]),
               hash'[b] # 0
        PROVE  b \in approx'
    <3>1. CASE s = r
      BY <2>2, <3>1, <1>7
    <3>2. CASE s # r
      <4>1. b \in From(table[s], fillAt[s])
        BY <2>2, <3>2, <1>7
      <4>2. b \in In(table[s])
        BY <4>1 DEF From, In
      <4>3. hash[b] # 0 /\ b \notin In(new)
        BY <2>2, <3>2, <4>2, <1>4
      <4> QED
        BY <2>2, <4>1, <4>3 DEF ApproxOK
    <3> QED
      BY <3>1, <3>2
  <2> QED
    BY <2>1, <2>2 DEF ApproxOK, From
<1>14. \A b \in approx' \ left' : b \in approx \ left \/ b \in From(t, fa)
  OBVIOUS
<1> QED
  BY <1>3, <1>4, <1>5, <1>8, <1>10, <1>11, <1>12, <1>13, <1>14
     DEF PoolTyped, OthersKept

-----------------------------------------------------------------------------
(***************************************************************************)
(* The connector goes through a fill: _track_filled_blocks.                *)
(***************************************************************************)

\* There is a cursor, so _settle moves it where the code's loop stops.
LEMMA CursorExists ==
  ASSUME NEW f, f.table \in Seq(Blocks), ScanStart(f) \in Nat,
         ScanStart(f) <= Len(f.table) + 1, NEW settled
  PROVE  \E n \in 0 .. Len(f.table) + 1 : IsCursor(f, settled, n)
<1> DEFINE start == ScanStart(f)
           len == Len(f.table)
           T == {n \in start .. len + 1 : n <= len => f.table[n] \notin settled}
<1>1. len \in Nat /\ start \in Nat /\ start <= len + 1
  BY LenProperties
<1>2. T \subseteq Nat /\ len + 1 \in T
  BY <1>1
<1>3. PICK x \in T : \A y \in T : x <= y
  <2> HIDE DEF T
  <2> QED
    BY <1>2, LeastNumber
<1>4. x \in start .. len + 1 /\ (x <= len => f.table[x] \notin settled)
  OBVIOUS
<1>5. ASSUME NEW k \in start .. x - 1
      PROVE  k <= len /\ f.table[k] \in settled
  <2>1. k \in start .. len + 1 /\ k < x /\ k <= len
    BY <1>1, <1>4
  <2>2. k \notin T
    BY <1>3, <2>1, <1>1
  <2> QED
    BY <2>1, <2>2
<1> QED
  BY <1>1, <1>4, <1>5 DEF IsCursor

\* What _settle leaves of a fill.
LEMMA SettledFacts ==
  ASSUME NEW f \in Fill, NEW handled \in SUBSET Blocks,
         f.first <= Len(f.table), f.scanFrom <= Len(f.table) + 1
  PROVE  LET g == Settled(f, handled) IN
         /\ g \in Fill
         /\ g.table = f.table /\ g.first = f.first
         /\ g.settled = f.settled \cup handled
         /\ g.scanFrom <= Len(f.table) + 1
         /\ \A k \in ScanStart(f) .. g.scanFrom - 1 : f.table[k] \in g.settled
<1> DEFINE settled == f.settled \cup handled
           n == CHOOSE n \in 0 .. Len(f.table) + 1 : IsCursor(f, settled, n)
<1>1. /\ f.table \in Seq(Blocks) /\ Len(f.table) \in Nat
      /\ Len(f.table) <= TrackedCap /\ TrackedCap \in Nat
  BY Caps, ListIsSeq DEF Fill
<1>2. ScanStart(f) \in Nat /\ ScanStart(f) <= Len(f.table) + 1
  BY <1>1 DEF ScanStart, Fill
<1>3. n \in 0 .. Len(f.table) + 1 /\ IsCursor(f, settled, n)
  <2>1. \E m \in 0 .. Len(f.table) + 1 : IsCursor(f, settled, m)
    BY <1>1, <1>2, CursorExists
  <2> HIDE DEF settled
  <2> QED
    BY <2>1
<1>4. Settled(f, handled) = [f EXCEPT !.settled = settled, !.scanFrom = n]
  BY DEF Settled
<1>5. settled \in SUBSET Blocks
  BY DEF Fill
<1> HIDE DEF n
<1>6. n \in 0 .. TrackedCap + 1
  BY <1>1, <1>3
<1> HIDE DEF settled
<1> DEFINE g == [f EXCEPT !.settled = settled, !.scanFrom = n]
<1>7. /\ g \in Fill /\ g.table = f.table /\ g.first = f.first
      /\ g.settled = settled /\ g.scanFrom = n
  BY <1>5, <1>6 DEF Fill
<1>8. \A k \in ScanStart(f) .. n - 1 : f.table[k] \in settled
  BY <1>3 DEF IsCursor
<1>9. n <= Len(f.table) + 1
  BY <1>1, <1>3
<1> HIDE DEF g
<1>10. /\ g \in Fill /\ g.table = f.table /\ g.first = f.first
       /\ g.settled = f.settled \cup handled
       /\ g.scanFrom <= Len(f.table) + 1
       /\ \A k \in ScanStart(f) .. g.scanFrom - 1 : f.table[k] \in g.settled
  BY <1>7, <1>8, <1>9 DEF settled
<1> QED
  BY <1>4, <1>10 DEF g

\* What a pass over the fill f of r does to the pool and to the connector.
LEMMA TrackStep ==
  ASSUME TypeOK, TablesOK, Private, ApproxOK,
         NEW r \in Requests, NEW f \in Fill, NEW raises \in BOOLEAN,
         LoadOf(f, r), Covers(f, r), SettledOK(f, r),
         TrackFilledBlocks(r, f, raises), UNCHANGED <<table, full, fillAt>>
  PROVE  /\ tracked' \in [Requests -> Fill]
         /\ reported' \in [Requests -> SUBSET Blocks]
         /\ hash' \in [Blocks -> 0 .. PromptBlocks]
         /\ approx' \subseteq Blocks /\ left' \subseteq Blocks
         /\ Private' /\ ApproxOK'
         /\ \A s \in Requests : s # r => tracked'[s] = tracked[s]
         /\ tracked'[r].table = f.table /\ tracked'[r].first = f.first
         /\ SettledOK(tracked[r], r)'
         /\ \A s \in Requests : reported[s] \subseteq reported'[s]
         /\ \A b \in Blocks : hash'[b] # hash[b] => b \in approx /\ hash'[b] = 0
         /\ \A b \in left : hash'[b] # 0 => b \in left'
         /\ \A b \in approx' \ left' :
              b \in approx \ left /\ b \notin From(f.table, f.first)
<1> DEFINE found   == CachedFillBlocks(f, hash)
           evicted == IF Evicts(r) /\ ~raises THEN found ELSE {}
           handled == IF Evicts(r) THEN evicted ELSE found
<1>1. /\ tracked' = [tracked EXCEPT ![r] =
                       IF handled = {} THEN f ELSE Settled(f, handled)]
      /\ reported' = [reported EXCEPT ![r] = @ \cup handled]
      /\ hash' = [b \in Blocks |-> IF b \in evicted THEN 0 ELSE hash[b]]
      /\ approx' = approx \ evicted
      /\ left' = (left \ evicted) \cup (found \ evicted)
  BY DEF TrackFilledBlocks
<1>2. /\ table[r] \in Seq(Blocks) /\ Len(table[r]) \in Nat
      /\ \A k \in 1 .. Len(table[r]) : table[r][k] \in Blocks
      /\ PromptBlocks \in Nat /\ full[r] \in Nat /\ fillAt[r] \in Nat
  <2>1. table[r] \in Seq(Blocks) /\ Len(table[r]) \in Nat
    BY TablesAreSeqs
  <2>2. \A k \in 1 .. Len(table[r]) : table[r][k] \in Blocks
    BY <2>1, ElementOfSeq
  <2> QED
    BY <2>1, <2>2, BoundAssumption DEF TypeOK
<1>3. /\ f.first \in Nat /\ f.scanFrom \in Nat /\ f.settled \in SUBSET Blocks
      /\ Len(f.table) \in Nat
      /\ f.scanFrom <= Len(f.table) + 1 /\ f.first <= Len(f.table)
      /\ ScanStart(f) \in Nat /\ f.first <= ScanStart(f)
      /\ f.scanFrom <= ScanStart(f) /\ ScanStart(f) \in {f.first, f.scanFrom}
      /\ 0 < f.first /\ fillAt[r] <= f.first /\ 0 < fillAt[r]
  <2>1. f.table \in Seq(Blocks) /\ Len(f.table) \in Nat
    BY Caps, ListIsSeq DEF Fill
  <2> QED
    BY <2>1, <1>2, Caps DEF Fill, SettledOK, ScanStart, LoadOf
<1>4. \A b \in found : /\ b \in Blocks /\ hash[b] # 0
                       /\ b \in From(table[r], fillAt[r])
                       /\ \E k \in 1 .. full[r] : table[r][k] = b
  <2> TAKE b \in found
  <2>1. PICK k \in 1 .. Len(f.table) :
          b = f.table[k] /\ k >= ScanStart(f) /\ hash[b] # 0
    BY DEF CachedFillBlocks
  <2>2. b \in From(f.table, f.first)
    BY <2>1, <1>3 DEF From
  <2>3. PICK j \in 1 .. Len(table[r]) : b = table[r][j] /\ j >= f.first
    BY <2>2 DEF Covers, From
  <2>4. j \in 1 .. full[r]
    BY <2>1, <2>3, <1>2 DEF Private
  <2>5. b \in From(table[r], fillAt[r])
    BY <2>3, <1>2, <1>3 DEF From
  <2> QED
    BY <2>1, <2>3, <2>4, <2>5, <1>2
<1>5. \A b \in From(f.table, f.first) :
        hash[b] # 0 => b \in found \/ b \in f.settled
  <2> TAKE b \in From(f.table, f.first)
  <2>1. PICK k \in 1 .. Len(f.table) : b = f.table[k] /\ k >= f.first
    BY DEF From
  <2>2. CASE k >= ScanStart(f)
    BY <2>1, <2>2 DEF CachedFillBlocks
  <2>3. CASE k < ScanStart(f)
    <3>1. k < f.scanFrom
      BY <2>1, <2>3, <1>2, <1>3
    <3> QED
      BY <2>1, <3>1 DEF SettledOK
  <2> QED
    BY <2>2, <2>3, <1>2, <1>3
<1>6. /\ evicted \subseteq found /\ handled \subseteq found
      /\ Evicts(r) => handled = evicted
      /\ ~Evicts(r) => evicted = {} /\ handled = found
  OBVIOUS
<1> HIDE DEF found, evicted, handled
<1>7. \A b \in Blocks : hash'[b] = IF b \in evicted THEN 0 ELSE hash[b]
  BY <1>1
<1>8. \A b \in found : b \in approx
  BY <1>4 DEF ApproxOK
<1>9. /\ hash' \in [Blocks -> 0 .. PromptBlocks]
      /\ approx' \subseteq Blocks /\ left' \subseteq Blocks
      /\ reported' \in [Requests -> SUBSET Blocks]
      /\ \A s \in Requests : reported[s] \subseteq reported'[s]
  BY <1>1, <1>2, <1>4, <1>6 DEF TypeOK
<1>10. /\ tracked' \in [Requests -> Fill]
       /\ \A s \in Requests : s # r => tracked'[s] = tracked[s]
       /\ tracked'[r].table = f.table /\ tracked'[r].first = f.first
       /\ tracked'[r].settled = f.settled \cup handled
       /\ tracked'[r].scanFrom <= Len(f.table) + 1
       /\ \A k \in ScanStart(f) .. tracked'[r].scanFrom - 1 :
            f.table[k] \in tracked'[r].settled
  <2>1. CASE handled = {}
    <3>1. tracked' = [tracked EXCEPT ![r] = f]
      BY <1>1, <2>1
    <3>2. tracked'[r] = f /\ tracked' \in [Requests -> Fill]
      BY <3>1 DEF TypeOK
    <3>3. \A k \in ScanStart(f) .. f.scanFrom - 1 : FALSE
      BY <1>3
    <3> QED
      BY <2>1, <3>1, <3>2, <3>3, <1>3 DEF TypeOK
  <2>2. CASE handled # {}
    <3> DEFINE g == Settled(f, handled)
    <3>1. tracked' = [tracked EXCEPT ![r] = g]
      BY <1>1, <2>2
    <3>2. handled \in SUBSET Blocks
      BY <1>4, <1>6
    <3>3. /\ g \in Fill /\ g.table = f.table /\ g.first = f.first
          /\ g.settled = f.settled \cup handled
          /\ g.scanFrom <= Len(f.table) + 1
          /\ \A k \in ScanStart(f) .. g.scanFrom - 1 : f.table[k] \in g.settled
      BY <3>2, <1>3, SettledFacts
    <3> HIDE DEF g
    <3>4. tracked'[r] = g
      BY <3>1 DEF TypeOK
    <3> QED
      BY <3>1, <3>3, <3>4 DEF TypeOK
  <2> QED
    BY <2>1, <2>2
<1>11. \A b \in left : hash'[b] # 0 => b \in left'
  BY <1>1, <1>7 DEF TypeOK
<1>12. \A s \in Requests : In(table[s]) \subseteq Blocks
  BY TablesAreSeqs, ElementOfSeq DEF In
<1>13. Private'
  <2> SUFFICES ASSUME NEW s \in Requests,
                      NEW k \in full[s] + 1 .. Len(table[s])
               PROVE  /\ hash'[table[s][k]] = 0
                      /\ \A q \in Requests \ {s} : table[s][k] \notin In(table[q])
    BY DEF Private, In
  <2>1. hash[table[s][k]] = 0
    BY DEF Private
  <2>2. table[s][k] \in Blocks
    <3>1. k \in 1 .. Len(table[s]) /\ table[s] \in Seq(Blocks)
      BY TablesAreSeqs DEF TypeOK
    <3> QED
      BY <3>1, ElementOfSeq
  <2> QED
    BY <2>1, <2>2, <1>7 DEF Private
<1>14. ApproxOK'
  <2>1. \A b \in approx' : hash'[b] # 0
    BY <1>1, <1>7 DEF ApproxOK, TypeOK
  <2>2. ASSUME NEW s \in Requests, NEW b \in From(table[s], fillAt[s]),
               hash'[b] # 0
        PROVE  b \in approx'
    <3>1. b \in Blocks
      BY <1>12 DEF From, In
    <3> QED
      BY <2>2, <3>1, <1>1, <1>7 DEF ApproxOK
  <2> QED
    BY <2>1, <2>2 DEF ApproxOK, From
<1>15. SettledOK(tracked[r], r)'
  <2>1. ASSUME NEW b \in f.settled \cup handled
        PROVE  /\ \E k \in 1 .. full[r] : table[r][k] = b
               /\ hash'[b] # 0 => ~Evicts(r) /\ b \in left'
    <3>1. CASE b \in f.settled
      BY <3>1, <1>3, <1>7, <1>11 DEF SettledOK
    <3>2. CASE b \in handled
      BY <3>2, <1>1, <1>4, <1>6, <1>7
    <3> QED
      BY <2>1, <3>1, <3>2
  <2>2. ASSUME NEW k \in 1 .. Len(f.table), f.first <= k,
               k < tracked'[r].scanFrom
        PROVE  f.table[k] \in tracked'[r].settled
    <3>1. tracked'[r].scanFrom \in Nat
      BY <1>10 DEF Fill
    <3>2. CASE k >= ScanStart(f)
      BY <2>2, <3>1, <3>2, <1>3, <1>10
    <3>3. CASE k < ScanStart(f)
      <4>1. k < f.scanFrom
        BY <2>2, <3>3, <1>3
      <4> QED
        BY <2>2, <4>1, <1>10 DEF SettledOK
    <3> QED
      BY <3>2, <3>3, <1>3
  <2>3. Evicts(r)' <=> Evicts(r)
    BY DEF Evicts
  <2> QED
    BY <2>1, <2>2, <2>3, <1>3, <1>10 DEF SettledOK
<1>16. \A b \in Blocks : hash'[b] # hash[b] => b \in approx /\ hash'[b] = 0
  BY <1>6, <1>7, <1>8
<1>17. ASSUME NEW b \in approx' \ left'
       PROVE  b \in approx \ left /\ b \notin From(f.table, f.first)
  <2>1. b \in approx /\ b \notin evicted /\ b \notin found /\ b \notin left
    BY <1>1, <1>6
  <2>2. hash[b] # 0
    BY <2>1 DEF ApproxOK
  <2> QED
    BY <2>1, <2>2, <1>5 DEF SettledOK
<1> QED
  BY <1>9, <1>10, <1>11, <1>13, <1>14, <1>15, <1>16, <1>17

-----------------------------------------------------------------------------
(***************************************************************************)
(* The steps that hash blocks.                                             *)
(***************************************************************************)

\* Two lists of distinct blocks that share none make one.
LEMMA ConcatDistinct ==
  ASSUME NEW u \in Seq(Blocks), NEW v \in Seq(Blocks),
         \A i, j \in 1 .. Len(u) : u[i] = u[j] => i = j,
         \A i, j \in 1 .. Len(v) : v[i] = v[j] => i = j,
         In(u) \cap In(v) = {}
  PROVE  /\ u \o v \in Seq(Blocks) /\ Len(u \o v) = Len(u) + Len(v)
         /\ Len(u) \in Nat /\ Len(v) \in Nat
         /\ \A i, j \in 1 .. Len(u \o v) : (u \o v)[i] = (u \o v)[j] => i = j
         /\ \A k \in 1 .. Len(u) : (u \o v)[k] = u[k] /\ u[k] \in In(u)
         /\ \A k \in Len(u) + 1 .. Len(u \o v) : (u \o v)[k] \in In(v)
         /\ \A b \in In(v) :
              \E k \in Len(u) + 1 .. Len(u \o v) : (u \o v)[k] = b
<1> DEFINE t == u \o v
<1>1. /\ t \in Seq(Blocks) /\ Len(t) = Len(u) + Len(v)
      /\ Len(u) \in Nat /\ Len(v) \in Nat
      /\ \A i \in 1 .. Len(u) + Len(v) :
           t[i] = IF i <= Len(u) THEN u[i] ELSE v[i - Len(u)]
  BY ConcatProperties, LenProperties
<1> HIDE DEF t
<1>2. \A k \in 1 .. Len(u) : t[k] = u[k] /\ u[k] \in In(u)
  BY <1>1 DEF In
<1>3. \A k \in Len(u) + 1 .. Len(t) :
        t[k] = v[k - Len(u)] /\ k - Len(u) \in 1 .. Len(v) /\ t[k] \in In(v)
  BY <1>1 DEF In
<1>4. \A i, j \in 1 .. Len(t) : t[i] = t[j] => i = j
  <2> TAKE i, j \in 1 .. Len(t)
  <2>1. CASE i <= Len(u) /\ j <= Len(u)
    BY <2>1, <1>1, <1>2
  <2>2. CASE i > Len(u) /\ j > Len(u)
    BY <2>2, <1>1, <1>3
  <2>3. CASE i <= Len(u) /\ j > Len(u)
    <3>1. i \in 1 .. Len(u) /\ j \in Len(u) + 1 .. Len(t)
      BY <2>3, <1>1
    <3>2. t[i] \in In(u)
      BY <3>1, <1>2
    <3>3. t[j] \in In(v)
      BY <3>1, <1>3
    <3> QED
      BY <3>2, <3>3
  <2>4. CASE i > Len(u) /\ j <= Len(u)
    <3>1. j \in 1 .. Len(u) /\ i \in Len(u) + 1 .. Len(t)
      BY <2>4, <1>1
    <3>2. t[j] \in In(u)
      BY <3>1, <1>2
    <3>3. t[i] \in In(v)
      BY <3>1, <1>3
    <3> QED
      BY <3>2, <3>3
  <2> QED
    BY <2>1, <2>2, <2>3, <2>4, <1>1
<1>5. \A b \in In(v) : \E k \in Len(u) + 1 .. Len(t) : t[k] = b
  <2> TAKE b \in In(v)
  <2>1. PICK i \in 1 .. Len(v) : v[i] = b
    BY DEF In
  <2>2. PICK k \in Nat : k = i + Len(u)
    BY <1>1
  <2>3. k \in Len(u) + 1 .. Len(t) /\ k - Len(u) = i
    BY <2>2, <1>1
  <2> QED
    BY <2>1, <2>3, <1>3
<1> QED
  BY <1>1, <1>2, <1>3, <1>4, <1>5 DEF t

\* New blocks are distinct, few enough and in no table.
LEMMA AllocationFacts ==
  ASSUME NEW new \in Allocations
  PROVE  /\ new \in Seq(Blocks) /\ Len(new) <= StepBlocks
         /\ \A i, j \in 1 .. Len(new) : new[i] = new[j] => i = j
         /\ In(new) \subseteq Blocks
         /\ \A r \in Requests : In(new) \cap In(table[r]) = {}
<1>1. new \in Lists(StepBlocks) /\ In(new) \subseteq Free
  BY DEF Allocations
<1>2. new \in Seq(Blocks) /\ Len(new) <= StepBlocks
  BY <1>1, BoundAssumption, ListIsSeq
<1> QED
  BY <1>1, <1>2 DEF Allocations, Free

\* What is tracked of a request that a step leaves alone stays in step.
LEMMA SyncedKept ==
  ASSUME NEW s, Synced(s), table'[s] = table[s], full'[s] = full[s],
         diff'[s] = diff[s], tracked'[s] = tracked[s], fillAt'[s] = fillAt[s],
         s \in resumed' <=> s \in resumed
  PROVE  Synced(s)'
  BY DEF Synced, LoadOf, From, In

\* When r hashes blocks, what is tracked of another request stays right.
LEMMA OthersTracked ==
  ASSUME TypeOK, TablesOK, NEW r \in Requests, NEW s \in Requests, s # r,
         NEW t, NEW lo, NEW fa, OthersKept(r, t, lo, fa),
         Synced(s), SettledOK(tracked[s], s),
         table'[s] = table[s], full'[s] = full[s], diff'[s] = diff[s],
         tracked'[s] = tracked[s], fillAt'[s] = fillAt[s],
         s \in resumed' <=> s \in resumed
  PROVE  Synced(s)' /\ SettledOK(tracked[s], s)'
<1>1. Synced(s)'
  BY SyncedKept
<1>2. \A b \in tracked[s].settled : b \in In(table[s])
  <2>1. full[s] <= Len(table[s]) /\ full[s] \in Nat /\ Len(table[s]) \in Nat
    BY TablesAreSeqs DEF TablesOK
  <2> QED
    BY <2>1 DEF SettledOK, In
<1>3. SettledOK(tracked[s], s)'
  BY <1>2 DEF SettledOK, Evicts, OthersKept
<1> QED
  BY <1>1, <1>3

\* Another request's row covers what it covered.
LEMMA DueKept ==
  ASSUME NEW s, s \notin alloc, s \notin alloc', diff'[s] = diff[s],
         tracked'[s] = tracked[s], s \in resumed' <=> s \in resumed
  PROVE  Due(s)' = Due(s)
  BY DEF Due, ExtendBlockTable, From

\* What is approximate and not left behind after r has grown was so before, if
\* it is among the blocks of r that were hashed already.
LEMMA KeptBelow ==
  ASSUME ApproxOK, NEW r \in Requests, NEW t, NEW lo \in Nat, NEW fa \in Nat,
         OthersKept(r, t, lo, fa), NEW k \in 1 .. lo - 1, lo - 1 <= Len(table[r]),
         Len(table[r]) \in Nat, t[k] = table[r][k],
         fillAt[r] > 0, k >= fillAt[r], fillAt[r] \in Nat, ApproxOK',
         t[k] \in approx' \ left'
  PROVE  t[k] \in approx \ left
<1>1. /\ hash'[t[k]] = hash[t[k]] /\ (t[k] \in left => t[k] \in left')
      /\ hash'[t[k]] # 0
  BY DEF OthersKept, ApproxOK
<1>2. t[k] \in From(table[r], fillAt[r])
  <2>1. k \in 1 .. Len(table[r])
    OBVIOUS
  <2> QED
    BY <2>1 DEF From
<1> QED
  BY <1>1, <1>2 DEF ApproxOK

\* A running request grows.
LEMMA GrowStep ==
  ASSUME GInv, NEW r \in Requests, Grow(r)
  PROVE  GInv' /\ (Covered => Covered')
<1> USE DEF GInv
<1>1. PICK new \in Allocations, hi \in full[r] .. PromptBlocks :
        /\ Len(table[r] \o new) <= PromptBlocks
        /\ hi <= Len(table[r] \o new)
        /\ table' = [table EXCEPT ![r] = table[r] \o new]
        /\ full' = [full EXCEPT ![r] = hi]
        /\ hash' = Hashed(table[r] \o new, new, full[r] + 1, hi)
        /\ approx' = {b \in (approx \ In(new))
                               \cup From(table[r] \o new, fillAt[r]) :
                        hash'[b] # 0}
        /\ left' = left \ In(new)
        /\ diff' = [diff EXCEPT ![r] = new]
  BY DEF Grow
<1>2. /\ phase[r] = "running" /\ r \notin rows /\ rows' = rows \cup {r}
      /\ pc \in {"running", "tight"} /\ alloc = {}
      /\ UNCHANGED <<use, phase, fillAt, preempts, gone, pc, resumed, alloc,
                     loadAt, tracked, reported>>
  BY DEF Grow, RunningLoop, connector
<1> DEFINE t == table[r] \o new
           lo == full[r] + 1
           fa == fillAt[r]
<1>3. /\ PromptBlocks \in Nat /\ full[r] \in Nat /\ fa \in Nat
      /\ full[r] <= Len(table[r]) /\ fa <= Len(table[r])
      /\ table[r] \in Seq(Blocks) /\ Len(table[r]) \in Nat
  BY BoundAssumption, TablesAreSeqs DEF TypeOK, TablesOK
<1>4. /\ new \in Seq(Blocks) /\ In(new) \subseteq Blocks
      /\ \A s \in Requests : In(new) \cap In(table[s]) = {}
  BY AllocationFacts
<1>5. /\ t \in Seq(Blocks) /\ Len(t) = Len(table[r]) + Len(new)
      /\ Len(new) \in Nat
      /\ \A i, j \in 1 .. Len(t) : t[i] = t[j] => i = j
      /\ \A k \in 1 .. Len(table[r]) :
           t[k] = table[r][k] /\ table[r][k] \in In(table[r])
      /\ \A k \in Len(table[r]) + 1 .. Len(t) : t[k] \in In(new)
      /\ \A b \in In(new) : \E k \in Len(table[r]) + 1 .. Len(t) : t[k] = b
  <2>1. /\ \A i, j \in 1 .. Len(table[r]) : table[r][i] = table[r][j] => i = j
        /\ \A i, j \in 1 .. Len(new) : new[i] = new[j] => i = j
        /\ In(table[r]) \cap In(new) = {}
    BY <1>4, AllocationFacts DEF TablesOK
  <2> QED
    BY <2>1, <1>3, <1>4, ConcatDistinct
<1>6. /\ Len(t) <= PromptBlocks /\ hi <= Len(t) /\ hi \in Nat /\ full[r] <= hi
      /\ table' = [table EXCEPT ![r] = t] /\ full' = [full EXCEPT ![r] = hi]
      /\ hash' = Hashed(t, new, lo, hi)
      /\ approx' = {b \in (approx \ In(new)) \cup From(t, fa) : hash'[b] # 0}
      /\ left' = left \ In(new) /\ diff' = [diff EXCEPT ![r] = new]
  BY <1>1, <1>3
<1> HIDE DEF t
<1>7. /\ PoolTyped' /\ TablesOK' /\ Private' /\ ApproxOK'
      /\ OthersKept(r, t, lo, fa)
  <2>1. lo \in Nat \ {0} /\ lo <= hi + 1 /\ fa <= Len(t)
    <3>1. Len(t) = Len(table[r]) + Len(new) /\ Len(new) \in Nat
      BY <1>5
    <3>2. full[r] <= hi /\ hi \in Nat
      BY <1>6
    <3> QED
      BY <3>1, <3>2, <1>3
  <2>2. In(new) \subseteq {t[k] : k \in lo .. Len(t)}
    BY <1>3, <1>5
  <2>3. ASSUME NEW k \in lo .. Len(t)
        PROVE  /\ t[k] \in In(new) \/ hash[t[k]] = 0
               /\ \A s \in Requests \ {r} : t[k] \notin In(table[s])
    <3>1. CASE k <= Len(table[r])
      <4>1. k \in full[r] + 1 .. Len(table[r]) /\ t[k] = table[r][k]
        BY <2>3, <3>1, <1>3, <1>5
      <4> QED
        BY <4>1 DEF Private
    <3>2. CASE k > Len(table[r])
      BY <2>3, <3>2, <1>3, <1>4, <1>5
    <3> QED
      BY <3>1, <3>2, <1>3, <1>5
  <2>4. ASSUME NEW k \in 1 .. lo - 1, NEW s \in Requests \ {r},
               NEW j \in full[s] + 1 .. Len(table[s])
        PROVE  t[k] # table[s][j]
    <3>1. t[k] \in In(table[r])
      BY <1>3, <1>5
    <3> QED
      BY <3>1 DEF Private
  <2>5. /\ fillAt' = [fillAt EXCEPT ![r] = fa] /\ phase'[r] = "running"
        /\ phase' \in [Requests -> {"none", "waiting", "running", "preempted"}]
        /\ \A s \in Requests \ {r} : phase'[s] = phase[s]
    BY <1>2 DEF TypeOK
  <2>6. HashesOwn(r, t, new, lo, hi, fa)
    BY <1>3, <1>4, <1>5, <1>6, <2>1, <2>2, <2>3, <2>4 DEF HashesOwn
  <2>7. Hashes(r, t, new, lo, hi, fa)
    BY <1>6, <2>5 DEF Hashes
  <2> QED
    BY <2>6, <2>7, HashStep
<1>8. new \in Tables
  <2>1. Len(new) <= PromptBlocks
    BY <1>3, <1>5, <1>6
  <2> QED
    BY <2>1, <1>3, <1>4, SeqIsList DEF Tables
<1>9. TypeOK'
  BY <1>2, <1>6, <1>7, <1>8 DEF TypeOK, PoolTyped
<1>10. StepOK' /\ AllocOK'
  BY <1>2, <1>6 DEF StepOK, AllocOK, TypeOK
<1>11. /\ table'[r] = t /\ full'[r] = hi /\ diff'[r] = new
       /\ tracked'[r] = tracked[r] /\ fillAt'[r] = fillAt[r]
       /\ r \notin resumed /\ r \notin resumed' /\ diff[r] = << >>
  BY <1>2, <1>6 DEF TypeOK, StepOK
<1>12. ASSUME tracked[r] # NoFill
       PROVE  /\ Synced(r)' /\ SettledOK(tracked[r], r)'
              /\ tracked[r].first <= full[r] /\ 0 < tracked[r].first
              /\ From(tracked[r].table \o new, tracked[r].first)
                   = From(t, tracked[r].first)
  <2> DEFINE f == tracked[r]
  <2>1. Synced(r) /\ SettledOK(f, r)
    BY <1>2, <1>12 DEF TrackedOK
  <2>2. /\ f.table \in Seq(Blocks) /\ Len(f.table) \in Nat /\ f.first \in Nat
        /\ StepBlocks \in Nat
    BY TablesAreSeqs, Caps
  <2>3. /\ 0 < f.first /\ f.first <= full[r] /\ f.first <= Len(f.table)
        /\ f.first <= Len(table[r]) + 1 /\ f.first <= Len(f.table) + 1
        /\ 0 < fillAt[r] /\ fillAt[r] <= f.first
    BY <2>1, <2>2, <1>3 DEF Synced, LoadOf, SettledOK
  <2>4. In(diff[r]) = {} /\ Len(diff[r]) = 0
    BY <1>11, NoFillType DEF In
  <2>5. /\ From(f.table, f.first) = From(table[r], f.first)
        /\ Len(f.table) <= Len(table[r]) + StepBlocks
    BY <2>1, <2>2, <2>4, <1>3, <1>11 DEF Synced
  <2>6. /\ From(t, f.first) = From(table[r], f.first) \cup In(new)
        /\ From(f.table \o new, f.first) = From(f.table, f.first) \cup In(new)
    BY <2>2, <2>3, <1>3, <1>4, FromConcat DEF t
  <2>7. Synced(r)'
    <3>1. /\ 0 < fillAt[r] /\ fillAt[r] <= f.first
          /\ From(f.table, f.first) \cup In(new) = From(t, f.first)
          /\ Len(f.table) + Len(new) <= Len(t) + StepBlocks
          /\ f.first <= hi
      <4>1. full[r] <= hi /\ hi \in Nat /\ full[r] \in Nat
        BY <1>3, <1>6
      <4>2. Len(t) = Len(table[r]) + Len(new) /\ Len(new) \in Nat
        BY <1>5
      <4>3. f.first <= hi
        BY <4>1, <2>2, <2>3
      <4>4. Len(f.table) + Len(new) <= Len(t) + StepBlocks
        <5>1. /\ Len(f.table) <= Len(table[r]) + StepBlocks /\ StepBlocks \in Nat
              /\ Len(f.table) \in Nat /\ Len(table[r]) \in Nat
          BY <2>2, <2>5, <1>3
        <5>2. \A a, b, c, d \in Nat : a <= b + d => a + c <= (b + c) + d
          OBVIOUS
        <5> HIDE DEF f
        <5> QED
          BY <4>2, <5>1, <5>2
      <4> QED
        BY <4>3, <4>4, <2>3, <2>5, <2>6
    <3>2. (From(f.table, f.first) \cup In(diff[r]))' = From(f.table, f.first) \cup In(new)
      BY <1>11 DEF From, In
    <3>3. From(table[r], f.first)' = From(t, f.first)
      BY <1>11 DEF From
    <3> QED
      BY <3>1, <3>2, <3>3, <1>11 DEF Synced, LoadOf
  <2>8. \A b \in f.settled :
          \E k \in 1 .. full[r] : t[k] = b /\ hash'[b] = hash[b]
                                  /\ (b \in left => b \in left')
    <3> TAKE b \in f.settled
    <3>1. PICK k \in 1 .. full[r] : table[r][k] = b
      BY <2>1 DEF SettledOK
    <3>2. k \in 1 .. lo - 1 /\ k \in 1 .. Len(table[r])
      BY <1>3
    <3> QED
      BY <3>1, <3>2, <1>5, <1>7 DEF OthersKept
  <2>9. \A b \in f.settled :
          /\ \E k \in 1 .. hi : t[k] = b
          /\ hash'[b] # 0 => ~Evicts(r) /\ b \in left'
    <3> TAKE b \in f.settled
    <3>1. hash[b] # 0 => ~Evicts(r) /\ b \in left
      BY <2>1 DEF SettledOK
    <3>2. PICK k \in 1 .. full[r] : /\ t[k] = b /\ hash'[b] = hash[b]
                                    /\ b \in left => b \in left'
      BY <2>8
    <3>3. k \in 1 .. hi
      BY <1>3, <1>6
    <3> QED
      BY <3>1, <3>2, <3>3
  <2>10. SettledOK(tracked[r], r)'
    BY <2>1, <2>9, <1>11 DEF SettledOK, Evicts
  <2> QED
    BY <2>3, <2>5, <2>6, <2>7, <2>10
<1>13. TrackedOK'
  <2> SUFFICES ASSUME NEW s \in Requests \ alloc', phase'[s] = "running",
                      tracked'[s] # NoFill
               PROVE  Synced(s)' /\ SettledOK(tracked[s], s)'
    BY DEF TrackedOK
  <2>1. CASE s # r
    <3>1. Synced(s) /\ SettledOK(tracked[s], s)
      BY <1>2 DEF TrackedOK
    <3>2. /\ table'[s] = table[s] /\ full'[s] = full[s] /\ diff'[s] = diff[s]
          /\ tracked'[s] = tracked[s] /\ fillAt'[s] = fillAt[s]
          /\ s \in resumed' <=> s \in resumed
      BY <1>2, <1>6, <2>1 DEF TypeOK
    <3> QED
      BY <2>1, <3>1, <3>2, <1>7, OthersTracked
  <2>2. CASE s = r
    BY <2>2, <1>11, <1>12
  <2> QED
    BY <2>1, <2>2
<1>14. ASSUME Covered PROVE Covered'
  <2>1. ASSUME NEW b \in approx \ left
        PROVE  \E q \in rows' \cup alloc' : b \in Due(q)'
    <3>1. PICK q \in rows : b \in Due(q)
      BY <1>14, <2>1, <1>2 DEF Covered
    <3>2. q # r /\ q \in Requests
      BY <1>2 DEF TypeOK
    <3>3. Due(q)' = Due(q)
      BY <3>2, <1>2, <1>6, DueKept DEF TypeOK
    <3> QED
      BY <3>1, <3>3, <1>2
  <2>2. ASSUME NEW b \in From(t, fa), b \in approx' \ left', b \notin approx \ left
        PROVE  b \in Due(r)'
    <3>1. PICK k \in 1 .. Len(t) : b = t[k] /\ k >= fa /\ fa > 0
      BY <2>2 DEF From
    <3>2. tracked[r] # NoFill
      BY <1>14, <1>2, <3>1 DEF Covered
    <3>3. /\ tracked[r].first <= full[r] /\ tracked[r].first \in Nat
          /\ 0 < tracked[r].first
      BY <3>2, <1>12, TablesAreSeqs
    <3>4. k >= lo
      <4> SUFFICES ASSUME k < lo PROVE FALSE
        BY <1>3
      <4>1. /\ k \in 1 .. lo - 1 /\ lo - 1 <= Len(table[r]) /\ lo \in Nat
            /\ t[k] = table[r][k]
        BY <1>3, <1>5
      <4> QED
        BY <4>1, <3>1, <2>2, <1>3, <1>7, KeptBelow
    <3>5. b \in From(t, tracked[r].first)
      <4>1. k >= tracked[r].first
        BY <3>3, <3>4, <1>3
      <4> QED
        BY <4>1, <3>1, <3>3 DEF From
    <3>6. Due(r)' = From(tracked[r].table \o new, tracked[r].first)
      <4>1. ExtendBlockTable(r, tracked[r])'
              = [tracked[r] EXCEPT !.table = tracked[r].table \o new]
        BY <1>11 DEF ExtendBlockTable
      <4>2. ExtendBlockTable(r, tracked[r])'.table = tracked[r].table \o new
        BY <4>1, TablesAreSeqs DEF Fill
      <4> QED
        BY <4>2, <1>2, <1>11 DEF Due, From
    <3> QED
      BY <3>2, <3>5, <3>6, <1>12
  <2>3. \A b \in approx' \ left' : \E q \in rows' \cup alloc' : b \in Due(q)'
    BY <2>1, <2>2, <1>2, <1>7 DEF OthersKept
  <2> QED
    BY <2>3, <1>14, <1>2 DEF Covered
<1> QED
  BY <1>7, <1>9, <1>10, <1>13, <1>14

\* A request is admitted with blocks from the prefix cache and new ones.
LEMMA AllocateStep ==
  ASSUME GInv, NEW r \in Requests, Allocate(r)
  PROVE  GInv' /\ (Covered => Covered')
<1> USE DEF GInv
<1>1. PICK hits \in Hits, new \in Allocations, load \in 0 .. PromptBlocks,
           hi \in 0 .. PromptBlocks :
        LET t  == hits \o new
            fa == IF load > 0 THEN Len(hits) + 1 ELSE 0
        IN  /\ In(hits) \cap In(new) = {}
            /\ Len(new) > 0 /\ Len(t) <= PromptBlocks
            /\ Len(hits) + load <= hi /\ hi <= Len(t)
            /\ table' = [table EXCEPT ![r] = t]
            /\ full' = [full EXCEPT ![r] = hi]
            /\ fillAt' = [fillAt EXCEPT ![r] = fa]
            /\ hash' = Hashed(t, new, Len(hits) + 1, hi)
            /\ approx' = {b \in (approx \ In(new)) \cup From(t, fa) :
                            hash'[b] # 0}
            /\ left' = left \ In(new)
            /\ diff' = [diff EXCEPT ![r] = IF phase[r] = "preempted" THEN t
                                                                     ELSE @]
            /\ loadAt' = fa
  BY DEF Allocate
<1> DEFINE t  == hits \o new
           lo == Len(hits) + 1
           fa == IF load > 0 THEN Len(hits) + 1 ELSE 0
           again == IF phase[r] = "preempted" THEN {r} ELSE {}
<1>2. /\ phase[r] \in {"waiting", "preempted"} /\ pc \in {"running", "waiting"}
      /\ pc' = "waiting" /\ alloc' = {r} /\ alloc = {}
      /\ phase' = [phase EXCEPT ![r] = "running"]
      /\ rows' = rows \cup again /\ resumed' = resumed \cup again
      /\ UNCHANGED <<use, preempts, gone, tracked, reported>>
  BY DEF Allocate, connector
<1>3. /\ In(hits) \cap In(new) = {} /\ Len(new) > 0 /\ Len(t) <= PromptBlocks
      /\ Len(hits) + load <= hi /\ hi <= Len(t)
      /\ table' = [table EXCEPT ![r] = t] /\ full' = [full EXCEPT ![r] = hi]
      /\ fillAt' = [fillAt EXCEPT ![r] = fa] /\ hash' = Hashed(t, new, lo, hi)
      /\ approx' = {b \in (approx \ In(new)) \cup From(t, fa) : hash'[b] # 0}
      /\ left' = left \ In(new)
      /\ diff' = [diff EXCEPT ![r] = IF phase[r] = "preempted" THEN t ELSE @]
      /\ loadAt' = fa
  BY <1>1
<1>4. /\ PromptBlocks \in Nat /\ hi \in Nat /\ load \in Nat
  BY BoundAssumption
<1>5. /\ hits \in Seq(Blocks) /\ \A i \in 1 .. Len(hits) : hash[hits[i]] = i
  <2>1. PromptBlocks - 1 \in Int /\ hits \in Lists(PromptBlocks - 1)
    BY <1>4 DEF Hits
  <2> QED
    BY <2>1, ListIsSeq DEF Hits
<1>6. /\ new \in Seq(Blocks) /\ In(new) \subseteq Blocks
      /\ \A s \in Requests : In(new) \cap In(table[s]) = {}
  BY AllocationFacts
<1>7. /\ t \in Seq(Blocks) /\ Len(t) = Len(hits) + Len(new)
      /\ Len(hits) \in Nat /\ Len(new) \in Nat
      /\ \A i, j \in 1 .. Len(t) : t[i] = t[j] => i = j
      /\ \A k \in 1 .. Len(hits) : t[k] = hits[k]
      /\ \A k \in Len(hits) + 1 .. Len(t) : t[k] \in In(new)
      /\ \A b \in In(new) : \E k \in Len(hits) + 1 .. Len(t) : t[k] = b
  <2>1. \A i, j \in 1 .. Len(hits) : hits[i] = hits[j] => i = j
    BY <1>5
  <2>2. \A i, j \in 1 .. Len(new) : new[i] = new[j] => i = j
    BY AllocationFacts
  <2>3. /\ In(hits) \cap In(new) = {}
        /\ hits \in Seq(Blocks) /\ new \in Seq(Blocks)
    BY <1>3, <1>5, <1>6
  <2> QED
    BY <2>1, <2>2, <2>3, ConcatDistinct
<1> HIDE DEF t
<1>8. r \notin rows /\ r \notin alloc /\ alloc = {} /\ diff[r] = << >>
  BY <1>2 DEF StepOK
<1>9. HashesOwn(r, t, new, lo, hi, fa)
  <2>1. lo \in Nat \ {0} /\ lo <= hi + 1 /\ fa \in Nat /\ fa <= Len(t)
    BY <1>3, <1>4, <1>7
  <2>2. In(new) \subseteq {t[k] : k \in lo .. Len(t)}
    BY <1>7
  <2>3. ASSUME NEW k \in lo .. Len(t)
        PROVE  /\ t[k] \in In(new) \/ hash[t[k]] = 0
               /\ \A s \in Requests \ {r} : t[k] \notin In(table[s])
    <3>1. t[k] \in In(new)
      BY <1>7
    <3> QED
      BY <3>1, <1>6
  <2>4. ASSUME NEW k \in 1 .. lo - 1, NEW s \in Requests \ {r},
               NEW j \in full[s] + 1 .. Len(table[s])
        PROVE  t[k] # table[s][j]
    <3>1. k \in 1 .. Len(hits) /\ hash[t[k]] = k
      BY <1>5, <1>7
    <3>2. hash[table[s][j]] = 0
      BY DEF Private
    <3> QED
      BY <3>1, <3>2
  <2> QED
    BY <1>3, <1>4, <1>6, <1>7, <2>1, <2>2, <2>3, <2>4 DEF HashesOwn
<1>10. Hashes(r, t, new, lo, hi, fa)
  <2>1. /\ phase' \in [Requests -> {"none", "waiting", "running", "preempted"}]
        /\ phase'[r] = "running" /\ \A s \in Requests \ {r} : phase'[s] = phase[s]
    BY <1>2 DEF TypeOK
  <2> QED
    BY <2>1, <1>3 DEF Hashes
<1>11. /\ PoolTyped' /\ TablesOK' /\ Private' /\ ApproxOK'
       /\ OthersKept(r, t, lo, fa)
  BY <1>9, <1>10, HashStep
<1>12. t \in Tables
  BY <1>3, <1>4, <1>7, SeqIsList DEF Tables
<1>13. TypeOK'
  <2>1. fa \in 0 .. PromptBlocks
    BY <1>3, <1>4, <1>7
  <2> QED
    BY <2>1, <1>2, <1>3, <1>11, <1>12 DEF TypeOK, PoolTyped
<1>14. StepOK'
  BY <1>2, <1>3, <1>8 DEF StepOK, TypeOK
<1>15. AllocOK'
  <2>1. /\ table'[r] = t /\ full'[r] = hi /\ fillAt'[r] = fa /\ loadAt' = fa
        /\ fa \in Nat /\ fa <= hi
    BY <1>3, <1>4, <1>7 DEF TypeOK
  <2>2. r \notin resumed' => diff'[r] = << >>
    BY <1>2, <1>3, <1>8 DEF TypeOK
  <2>3. r \notin resumed' => In(diff'[r]) = {} /\ Len(diff'[r]) <= StepBlocks
    BY <2>2, NoFillType, Caps DEF In
  <2>4. fa = 0 \/ fa > 0
    BY <2>1
  <2> HIDE DEF fa
  <2>5. r \notin resumed' => (In(diff[r]) \subseteq From(table[r], loadAt))'
    <3>1. In(diff[r])' = In(diff'[r])
      BY DEF In
    <3> QED
      BY <2>3, <3>1
  <2> SUFFICES ASSUME NEW q \in alloc'
               PROVE  /\ loadAt' <= full'[q]
                      /\ loadAt' > 0 => 0 < fillAt'[q] /\ fillAt'[q] <= loadAt'
                      /\ loadAt' = 0 => fillAt'[q] = 0
                      /\ q \notin resumed' =>
                           /\ (In(diff[q]) \subseteq From(table[q], loadAt))'
                           /\ Len(diff'[q]) <= StepBlocks
    BY DEF AllocOK
  <2>6. q = r
    BY <1>2
  <2> QED
    BY <2>1, <2>3, <2>4, <2>5, <2>6
<1>16. TrackedOK'
  <2> SUFFICES ASSUME NEW s \in Requests \ alloc', phase'[s] = "running",
                      tracked'[s] # NoFill
               PROVE  Synced(s)' /\ SettledOK(tracked[s], s)'
    BY DEF TrackedOK
  <2>1. /\ s # r /\ phase'[s] = phase[s]
        /\ table'[s] = table[s] /\ full'[s] = full[s] /\ diff'[s] = diff[s]
        /\ tracked'[s] = tracked[s] /\ fillAt'[s] = fillAt[s]
        /\ s \in resumed' <=> s \in resumed
    BY <1>2, <1>3 DEF TypeOK
  <2>2. Synced(s) /\ SettledOK(tracked[s], s)
    BY <2>1, <1>2, <1>8 DEF TrackedOK
  <2> QED
    BY <2>1, <2>2, <1>11, OthersTracked
<1>17. ASSUME Covered PROVE Covered'
  <2>1. ASSUME NEW b \in approx' \ left'
        PROVE  \E q \in rows' \cup alloc' : b \in Due(q)'
    <3>1. table'[r] = t /\ loadAt' = fa
      BY <1>3 DEF TypeOK
    <3> HIDE DEF fa
    <3>2. CASE b \in From(t, fa)
      <4>1. Due(r)' = From(t, fa)
        BY <3>1, <1>2 DEF Due, From
      <4> QED
        BY <3>2, <4>1, <1>2
    <3>3. CASE b \in approx \ left
      <4>1. PICK q \in rows : b \in Due(q)
        BY <1>17, <3>3, <1>8 DEF Covered
      <4>2. q \in Requests /\ q # r
        BY <1>8 DEF TypeOK
      <4>3. Due(q)' = Due(q)
        BY <4>2, <1>2, <1>3, DueKept DEF TypeOK
      <4> QED
        BY <4>1, <4>3, <1>2
    <3> QED
      BY <2>1, <3>2, <3>3, <1>11 DEF OthersKept
  <2>2. \A s \in Requests \ alloc' : fillAt'[s] > 0 => tracked'[s] # NoFill
    BY <1>17, <1>2, <1>3, <1>8 DEF Covered, TypeOK
  <2>3. /\ \A s \in gone' : phase'[s] = "none" /\ use'[s] = MaxUses
        /\ \A s \in Requests : phase'[s] # "none" => use'[s] > 0
    <3>1. r \notin gone
      BY <1>17, <1>2 DEF Covered
    <3> QED
      BY <3>1, <1>17, <1>2 DEF Covered, TypeOK
  <2> QED
    BY <2>1, <2>2, <2>3 DEF Covered
<1> QED
  BY <1>11, <1>13, <1>14, <1>15, <1>16, <1>17

\* A running request gets blocks for a load in the middle of its prefill.
LEMMA GrowForLoadStep ==
  ASSUME GInv, NEW r \in Requests, GrowForLoad(r)
  PROVE  GInv' /\ (Covered => Covered')
<1> USE DEF GInv
<1>1. PICK new \in Allocations, load \in 1 .. PromptBlocks,
           hi \in 1 .. PromptBlocks :
        LET t  == table[r] \o new
            fa == IF fillAt[r] > 0 THEN fillAt[r] ELSE full[r] + 1
        IN  /\ Len(t) <= PromptBlocks
            /\ full[r] + load <= hi /\ hi <= Len(t)
            /\ table' = [table EXCEPT ![r] = t]
            /\ full' = [full EXCEPT ![r] = hi]
            /\ fillAt' = [fillAt EXCEPT ![r] = fa]
            /\ hash' = Hashed(t, new, full[r] + 1, hi)
            /\ approx' = {b \in (approx \ In(new)) \cup From(t, fa) :
                            hash'[b] # 0}
            /\ left' = left \ In(new)
            /\ diff' = [diff EXCEPT ![r] = new]
  BY DEF GrowForLoad
<1> DEFINE t  == table[r] \o new
           lo == full[r] + 1
           fa == IF fillAt[r] > 0 THEN fillAt[r] ELSE full[r] + 1
<1>2. /\ phase[r] = "running" /\ r \notin rows /\ rows' = rows \cup {r}
      /\ pc \in {"running", "tight"} /\ alloc = {} /\ alloc' = {r}
      /\ full[r] = Len(table[r]) /\ loadAt' = lo
      /\ UNCHANGED <<use, phase, preempts, gone, pc, resumed, tracked, reported>>
  BY DEF GrowForLoad, RunningLoop, connector
<1>3. /\ Len(t) <= PromptBlocks /\ full[r] + load <= hi /\ hi <= Len(t)
      /\ table' = [table EXCEPT ![r] = t] /\ full' = [full EXCEPT ![r] = hi]
      /\ fillAt' = [fillAt EXCEPT ![r] = fa] /\ hash' = Hashed(t, new, lo, hi)
      /\ approx' = {b \in (approx \ In(new)) \cup From(t, fa) : hash'[b] # 0}
      /\ left' = left \ In(new) /\ diff' = [diff EXCEPT ![r] = new]
  BY <1>1
<1>4. /\ PromptBlocks \in Nat /\ hi \in Nat /\ load \in Nat \ {0}
      /\ full[r] \in Nat /\ fillAt[r] \in Nat /\ fillAt[r] <= full[r]
      /\ table[r] \in Seq(Blocks) /\ Len(table[r]) \in Nat
  BY <1>2, BoundAssumption, TablesAreSeqs DEF TypeOK, TablesOK
<1>5. /\ new \in Seq(Blocks) /\ In(new) \subseteq Blocks
      /\ Len(new) <= StepBlocks
      /\ \A s \in Requests : In(new) \cap In(table[s]) = {}
  BY AllocationFacts
<1>6. /\ t \in Seq(Blocks) /\ Len(t) = Len(table[r]) + Len(new)
      /\ Len(new) \in Nat
      /\ \A i, j \in 1 .. Len(t) : t[i] = t[j] => i = j
      /\ \A k \in 1 .. Len(table[r]) :
           t[k] = table[r][k] /\ table[r][k] \in In(table[r])
      /\ \A k \in Len(table[r]) + 1 .. Len(t) : t[k] \in In(new)
      /\ \A b \in In(new) : \E k \in Len(table[r]) + 1 .. Len(t) : t[k] = b
  <2>1. /\ \A i, j \in 1 .. Len(table[r]) : table[r][i] = table[r][j] => i = j
        /\ \A i, j \in 1 .. Len(new) : new[i] = new[j] => i = j
        /\ In(table[r]) \cap In(new) = {}
    BY <1>5, AllocationFacts DEF TablesOK
  <2> QED
    BY <2>1, <1>4, <1>5, ConcatDistinct
<1> HIDE DEF t
<1>7. /\ lo \in Nat \ {0} /\ lo <= hi /\ fa \in Nat /\ fa <= lo /\ 0 < fa
      /\ lo - 1 = Len(table[r]) /\ hi <= Len(t) /\ Len(t) \in Nat
      /\ fa < lo => fa = fillAt[r] /\ fillAt[r] > 0
  <2>1. full[r] + 1 <= hi
    BY <1>3, <1>4
  <2>2. Len(t) \in Nat /\ hi <= Len(t)
    BY <1>3, <1>4, <1>6
  <2> QED
    BY <2>1, <2>2, <1>2, <1>4
<1> HIDE DEF fa
<1>8. HashesOwn(r, t, new, lo, hi, fa)
  <2>1. In(new) \subseteq {t[k] : k \in lo .. Len(t)}
    BY <1>2, <1>6
  <2>2. ASSUME NEW k \in lo .. Len(t)
        PROVE  /\ t[k] \in In(new) \/ hash[t[k]] = 0
               /\ \A s \in Requests \ {r} : t[k] \notin In(table[s])
    <3>1. t[k] \in In(new)
      BY <1>2, <1>6
    <3> QED
      BY <3>1, <1>5
  <2>3. ASSUME NEW k \in 1 .. lo - 1, NEW s \in Requests \ {r},
               NEW j \in full[s] + 1 .. Len(table[s])
        PROVE  t[k] # table[s][j]
    <3>1. t[k] \in In(table[r])
      BY <1>6, <1>7
    <3> QED
      BY <3>1 DEF Private
  <2>4. lo <= hi + 1 /\ fa <= Len(t)
    BY <1>4, <1>7
  <2> HIDE DEF lo
  <2> QED
    BY <1>3, <1>4, <1>5, <1>6, <1>7, <2>1, <2>2, <2>3, <2>4 DEF HashesOwn
<1>9. Hashes(r, t, new, lo, hi, fa)
  <2>1. /\ phase' \in [Requests -> {"none", "waiting", "running", "preempted"}]
        /\ phase'[r] = "running" /\ \A s \in Requests \ {r} : phase'[s] = phase[s]
    BY <1>2 DEF TypeOK
  <2> QED
    BY <2>1, <1>3 DEF Hashes
<1>10. /\ PoolTyped' /\ TablesOK' /\ Private' /\ ApproxOK'
       /\ OthersKept(r, t, lo, fa)
  BY <1>8, <1>9, HashStep
<1>11. TypeOK'
  <2>1. new \in Tables
    <3>1. Len(new) <= PromptBlocks
      BY <1>3, <1>4, <1>6
    <3> QED
      BY <3>1, <1>4, <1>5, SeqIsList DEF Tables
  <2>2. lo \in 0 .. PromptBlocks
    BY <1>4, <1>7
  <2> QED
    BY <2>1, <2>2, <1>2, <1>3, <1>10 DEF TypeOK, PoolTyped
<1>12. /\ table'[r] = t /\ full'[r] = hi /\ diff'[r] = new /\ fillAt'[r] = fa
       /\ r \notin resumed'
  BY <1>2, <1>3 DEF TypeOK
<1>13. StepOK'
  BY <1>2, <1>3, <1>12 DEF StepOK, TypeOK
<1>14. AllocOK'
  <2>1. In(new) \subseteq From(t, lo)
    <3> SUFFICES ASSUME NEW b \in In(new) PROVE b \in From(t, lo)
      OBVIOUS
    <3>1. PICK k \in Len(table[r]) + 1 .. Len(t) : t[k] = b
      BY <1>6
    <3>2. k \in Nat /\ k >= full[r] + 1 /\ k <= Len(t)
      BY <1>2, <1>4, <1>7
    <3>3. k \in 1 .. Len(t) /\ lo > 0 /\ k >= lo
      BY <3>2, <1>4, <1>7
    <3> QED
      BY <3>1, <3>3 DEF From
  <2>2. From(table[r], loadAt)' = From(t, lo) /\ In(diff[r])' = In(new)
    BY <1>2, <1>12 DEF From, In
  <2> HIDE DEF lo
  <2> QED
    BY <2>1, <2>2, <1>2, <1>5, <1>7, <1>12 DEF AllocOK
<1>15. TrackedOK'
  <2> SUFFICES ASSUME NEW s \in Requests \ alloc', phase'[s] = "running",
                      tracked'[s] # NoFill
               PROVE  Synced(s)' /\ SettledOK(tracked[s], s)'
    BY DEF TrackedOK
  <2>1. /\ s # r /\ phase'[s] = phase[s]
        /\ table'[s] = table[s] /\ full'[s] = full[s] /\ diff'[s] = diff[s]
        /\ tracked'[s] = tracked[s] /\ fillAt'[s] = fillAt[s]
        /\ s \in resumed' <=> s \in resumed
    BY <1>2, <1>3 DEF TypeOK
  <2>2. Synced(s) /\ SettledOK(tracked[s], s)
    BY <2>1, <1>2 DEF TrackedOK
  <2> QED
    BY <2>1, <2>2, <1>10, OthersTracked
<1>16. ASSUME Covered PROVE Covered'
  <2>1. ASSUME NEW b \in approx \ left
        PROVE  \E q \in rows' \cup alloc' : b \in Due(q)'
    <3>1. PICK q \in rows : b \in Due(q)
      BY <1>16, <2>1, <1>2 DEF Covered
    <3>2. q # r /\ q \in Requests
      BY <1>2 DEF TypeOK
    <3>3. Due(q)' = Due(q)
      BY <3>2, <1>2, <1>3, DueKept DEF TypeOK
    <3> QED
      BY <3>1, <3>3, <1>2
  <2>2. ASSUME NEW b \in From(t, fa), b \in approx' \ left', b \notin approx \ left
        PROVE  b \in Due(r)'
    <3>1. PICK k \in 1 .. Len(t) : b = t[k] /\ k >= fa
      BY <2>2 DEF From
    <3>2. k >= lo
      <4> SUFFICES ASSUME k < lo PROVE FALSE
        BY <1>7
      <4>1. /\ k \in 1 .. lo - 1 /\ lo - 1 <= Len(table[r]) /\ lo \in Nat
            /\ t[k] = table[r][k] /\ fillAt[r] > 0 /\ k >= fillAt[r]
        BY <3>1, <1>6, <1>7
      <4> QED
        BY <4>1, <3>1, <2>2, <1>4, <1>7, <1>10, KeptBelow
    <3>3. b \in From(t, lo)
      BY <3>1, <3>2, <1>7 DEF From
    <3>4. Due(r)' = From(t, lo)
      BY <1>2, <1>12 DEF Due, From
    <3> QED
      BY <3>3, <3>4
  <2>3. \A b \in approx' \ left' : \E q \in rows' \cup alloc' : b \in Due(q)'
    BY <2>1, <2>2, <1>2, <1>10 DEF OthersKept
  <2>4. \A s \in Requests \ alloc' : fillAt'[s] > 0 => tracked'[s] # NoFill
    BY <1>16, <1>2, <1>3 DEF Covered, TypeOK
  <2> QED
    BY <2>3, <2>4, <1>16, <1>2 DEF Covered
<1> QED
  BY <1>10, <1>11, <1>13, <1>14, <1>15, <1>16

-----------------------------------------------------------------------------
(***************************************************************************)
(* The passes of the connector.                                            *)
(***************************************************************************)

\* After a pass over the fill f of r, all is as the invariant has it.
LEMMA PassStep ==
  ASSUME GInv, NEW r \in Requests, NEW f \in Fill, NEW raises \in BOOLEAN,
         LoadOf(f, r), Covers(f, r), SettledOK(f, r),
         TrackFilledBlocks(r, f, raises),
         UNCHANGED engine, TypeOK', StepOK', alloc' = {},
         alloc \subseteq {r}, rows \ {r} \subseteq rows',
         \A s \in Requests \ {r} :
           diff'[s] = diff[s] /\ (s \in resumed' <=> s \in resumed),
         Due(r) = From(f.table, f.first),
         r \notin resumed' =>
           /\ In(diff'[r]) \subseteq From(table[r], f.first)
           /\ Len(f.table) + Len(diff'[r]) <= Len(table[r]) + StepBlocks
  PROVE  GInv' /\ (Covered => Covered')
<1> USE DEF GInv, engine
<1>1. /\ Private' /\ ApproxOK'
      /\ \A s \in Requests : s # r => tracked'[s] = tracked[s]
      /\ tracked'[r].table = f.table /\ tracked'[r].first = f.first
      /\ SettledOK(tracked[r], r)'
      /\ \A b \in Blocks : hash'[b] # hash[b] => b \in approx /\ hash'[b] = 0
      /\ \A b \in left : hash'[b] # 0 => b \in left'
      /\ \A b \in approx' \ left' :
           b \in approx \ left /\ b \notin From(f.table, f.first)
  BY TrackStep
<1>2. TablesOK' /\ AllocOK'
  BY DEF TablesOK, AllocOK
<1>3. Synced(r)'
  <2>1. LoadOf(tracked[r], r)'
    BY <1>1 DEF LoadOf
  <2>2. ASSUME r \notin resumed'
        PROVE  /\ (From(tracked[r].table, tracked[r].first) \cup In(diff[r])
                    = From(table[r], tracked[r].first))'
               /\ (Len(tracked[r].table) + Len(diff[r])
                    <= Len(table[r]) + StepBlocks)'
    <3>1. From(f.table, f.first) \cup In(diff'[r]) = From(table[r], f.first)
      BY <2>2 DEF Covers
    <3>2. /\ (From(tracked[r].table, tracked[r].first) \cup In(diff[r]))'
               = From(f.table, f.first) \cup In(diff'[r])
          /\ From(table[r], tracked[r].first)' = From(table[r], f.first)
      BY <1>1 DEF From, In
    <3> QED
      BY <2>2, <3>1, <3>2, <1>1
  <2> QED
    BY <2>1, <2>2 DEF Synced
<1>4. TrackedOK'
  <2> SUFFICES ASSUME NEW s \in Requests, s # r, phase[s] = "running",
                      tracked'[s] # NoFill
               PROVE  Synced(s)' /\ SettledOK(tracked[s], s)'
    BY <1>1, <1>3 DEF TrackedOK
  <2>1. tracked'[s] = tracked[s] /\ Synced(s) /\ SettledOK(tracked[s], s)
    BY <1>1 DEF TrackedOK
  <2>2. Synced(s)'
    BY <2>1, SyncedKept
  <2>3. \A b \in tracked[s].settled : hash'[b] # 0 => ~Evicts(s) /\ b \in left'
    <3>1. tracked[s].settled \subseteq Blocks
      BY DEF TypeOK, Fill
    <3> QED
      BY <2>1, <3>1, <1>1 DEF SettledOK
  <2>4. SettledOK(tracked[s], s)'
    BY <2>1, <2>3 DEF SettledOK, Evicts
  <2> QED
    BY <2>2, <2>4
<1>5. ASSUME Covered PROVE Covered'
  <2>1. ASSUME NEW b \in approx' \ left'
        PROVE  \E q \in rows' \cup alloc' : b \in Due(q)'
    <3>1. PICK q \in rows \cup alloc : b \in Due(q)
      BY <2>1, <1>1, <1>5 DEF Covered
    <3>2. q # r /\ q \in Requests /\ q \notin alloc /\ q \in rows'
      BY <2>1, <3>1, <1>1 DEF TypeOK
    <3>3. Due(q)' = Due(q)
      BY <3>2, <1>1, DueKept
    <3> QED
      BY <3>1, <3>2, <3>3
  <2>2. ASSUME NEW s \in Requests, fillAt[s] > 0 PROVE tracked'[s] # NoFill
    <3>1. CASE s = r
      <4>1. tracked'[r].first # NoFill.first
        BY <1>1, TablesAreSeqs DEF NoFill, LoadOf, Fill
      <4> QED
        BY <3>1, <4>1
    <3>2. CASE s # r
      BY <2>2, <3>2, <1>1, <1>5 DEF Covered
    <3> QED
      BY <3>1, <3>2
  <2> QED
    BY <2>1, <2>2, <1>5 DEF Covered
<1> QED
  BY <1>1, <1>2, <1>4, <1>5

\* A pass keeps the types of what it changes.
LEMMA PassTyped ==
  ASSUME GInv, NEW r \in Requests, NEW f \in Fill, NEW raises \in BOOLEAN,
         LoadOf(f, r), Covers(f, r), SettledOK(f, r),
         TrackFilledBlocks(r, f, raises), UNCHANGED engine
  PROVE  /\ tracked' \in [Requests -> Fill]
         /\ reported' \in [Requests -> SUBSET Blocks]
         /\ hash' \in [Blocks -> 0 .. PromptBlocks]
         /\ approx' \subseteq Blocks /\ left' \subseteq Blocks
         /\ \A s \in Requests : reported[s] \subseteq reported'[s]
         /\ \A b \in Blocks : hash'[b] # hash[b] => b \in approx
  BY TrackStep DEF GInv, engine

\* The table of a request is one the connector can keep.
LEMMA TableIsListed ==
  ASSUME GInv, NEW r \in Requests
  PROVE  table[r] \in Lists(TrackedCap)
<1>1. table[r] \in Seq(Blocks) /\ Len(table[r]) \in 0 .. PromptBlocks
  BY TablesAreSeqs DEF GInv
<1>2. TrackedCap \in Int /\ Len(table[r]) <= TrackedCap
  BY <1>1, Caps
<1> QED
  BY <1>1, <1>2, SeqIsList

\* The fill that update_state_after_alloc starts to track.
LEMMA FreshFill ==
  ASSUME GInv, NEW r \in Requests, r \in alloc, loadAt > 0
  PROVE  LET f == [NoFill EXCEPT !.table = table[r], !.first = loadAt]
         IN  /\ f \in Fill /\ f.table = table[r] /\ f.first = loadAt
             /\ LoadOf(f, r) /\ Covers(f, r) /\ SettledOK(f, r)
<1> DEFINE f == [NoFill EXCEPT !.table = table[r], !.first = loadAt]
<1>1. /\ table[r] \in Lists(TrackedCap) /\ loadAt \in 0 .. PromptBlocks
      /\ Len(table[r]) \in Nat /\ full[r] <= Len(table[r]) /\ full[r] \in Nat
      /\ loadAt <= full[r] /\ 0 < fillAt[r] /\ fillAt[r] <= loadAt
      /\ loadAt \in Nat /\ StepBlocks \in Nat
  <2>1. /\ table[r] \in Lists(TrackedCap) /\ Len(table[r]) \in Nat
        /\ full[r] \in Nat /\ loadAt \in Nat
    BY TablesAreSeqs, TableIsListed DEF GInv
  <2>2. loadAt \in 0 .. PromptBlocks /\ full[r] <= Len(table[r])
    BY DEF GInv, TypeOK, TablesOK
  <2>3. loadAt <= full[r] /\ 0 < fillAt[r] /\ fillAt[r] <= loadAt
    BY DEF GInv, AllocOK
  <2> QED
    BY <2>1, <2>2, <2>3, Caps
<1>2. NoFill \in Fill /\ NoFill.settled = {} /\ NoFill.scanFrom = 0
  BY NoFillType DEF NoFill
<1>3. /\ f \in Fill /\ f.table = table[r] /\ f.first = loadAt
      /\ f.settled = {} /\ f.scanFrom = 0
  BY <1>1, <1>2 DEF Fill
<1> HIDE DEF f
<1>4. SettledOK(f, r)
  BY <1>1, <1>3 DEF SettledOK
<1>5. LoadOf(f, r) /\ Covers(f, r)
  BY <1>1, <1>3 DEF LoadOf, Covers
<1> QED
  BY <1>3, <1>4, <1>5 DEF f

\* A list that grows keeps its beginning.
LEMMA PrefixKept ==
  ASSUME NEW u \in Seq(Blocks), NEW v \in Seq(Blocks)
  PROVE  /\ Len(u) <= Len(u \o v)
         /\ \A k \in 1 .. Len(u) : (u \o v)[k] = u[k]
<1>1. /\ Len(u) \in Nat /\ Len(v) \in Nat /\ Len(u \o v) = Len(u) + Len(v)
      /\ \A i \in 1 .. Len(u) + Len(v) :
           (u \o v)[i] = IF i <= Len(u) THEN u[i] ELSE v[i - Len(u)]
  BY ConcatProperties, LenProperties
<1> QED
  BY <1>1

\* The fill that a row of build_connector_meta continues.
LEMMA ExtendedFill ==
  ASSUME GInv, NEW r \in Requests \ alloc, phase[r] = "running",
         tracked[r] # NoFill
  PROVE  LET f == ExtendBlockTable(r, tracked[r])
         IN  /\ f \in Fill /\ f.first = tracked[r].first
             /\ LoadOf(f, r) /\ Covers(f, r) /\ SettledOK(f, r)
<1> DEFINE e == tracked[r]
           f == ExtendBlockTable(r, e)
<1>1. Synced(r) /\ SettledOK(e, r)
  BY DEF GInv, TrackedOK
<1>2. /\ e \in Fill /\ e.first \in Nat /\ e.scanFrom \in Nat
      /\ e.table \in Seq(Blocks) /\ Len(e.table) \in Nat
      /\ diff[r] \in Seq(Blocks) /\ Len(diff[r]) \in Nat
      /\ Len(table[r]) \in Nat /\ Len(table[r]) <= PromptBlocks
      /\ full[r] \in Nat /\ full[r] <= Len(table[r])
      /\ StepBlocks \in Nat /\ PromptBlocks \in Nat /\ TrackedCap \in Nat
      /\ TrackedCap = PromptBlocks + StepBlocks
  BY TablesAreSeqs, Caps DEF GInv, TablesOK
<1>3. LoadOf(e, r) /\ 0 < e.first /\ e.first <= full[r]
      /\ e.first <= Len(e.table) /\ e.scanFrom <= Len(e.table) + 1
  BY <1>1, <1>2, TablesAreSeqs DEF GInv, Synced, LoadOf, SettledOK
<1>4. CASE r \in resumed
  <2>1. f = [e EXCEPT !.table = diff[r], !.settled = {}, !.scanFrom = 0]
    BY <1>4 DEF ExtendBlockTable
  <2>2. diff[r] = table[r] /\ table[r] \in Lists(TrackedCap)
    BY <1>4, TableIsListed DEF GInv, StepOK
  <2>3. {} \in SUBSET Blocks /\ 0 \in 0 .. TrackedCap + 1
    BY <1>2
  <2> HIDE DEF f, e
  <2>4. /\ f.table = table[r] /\ f.first = e.first /\ f.settled = {}
        /\ f.scanFrom = 0 /\ f \in Fill
    <3>1. f = [e EXCEPT !.table = table[r], !.settled = {}, !.scanFrom = 0]
      BY <2>1, <2>2
    <3> QED
      BY <2>2, <2>3, <3>1, <1>2 DEF Fill
  <2>5. SettledOK(f, r)
    BY <2>4, <1>2, <1>3 DEF SettledOK
  <2>6. LoadOf(f, r) /\ Covers(f, r)
    BY <2>4, <1>2, <1>3 DEF LoadOf, Covers
  <2> QED
    BY <2>4, <2>5, <2>6 DEF f, e
<1>5. CASE r \notin resumed
  <2> DEFINE t == e.table \o diff[r]
  <2>1. f = [e EXCEPT !.table = t]
    BY <1>5 DEF ExtendBlockTable
  <2>2. /\ From(t, e.first) = From(e.table, e.first) \cup In(diff[r])
        /\ Len(t) = Len(e.table) + Len(diff[r]) /\ t \in Seq(Blocks)
        /\ Len(e.table) <= Len(t)
        /\ \A k \in 1 .. Len(e.table) : t[k] = e.table[k]
    <3> DEFINE u == e.table
               fst == e.first
    <3>1. /\ u \in Seq(Blocks) /\ diff[r] \in Seq(Blocks) /\ fst \in Nat
          /\ 0 < fst /\ fst <= Len(u) + 1
      BY <1>2, <1>3
    <3> SUFFICES /\ From(u \o diff[r], fst) = From(u, fst) \cup In(diff[r])
                 /\ Len(u \o diff[r]) = Len(u) + Len(diff[r])
                 /\ u \o diff[r] \in Seq(Blocks)
                 /\ Len(u) <= Len(u \o diff[r])
                 /\ \A k \in 1 .. Len(u) : (u \o diff[r])[k] = u[k]
      OBVIOUS
    <3> HIDE DEF u, fst
    <3> QED
      BY <3>1, FromConcat, PrefixKept
  <2>3. /\ From(e.table, e.first) \cup In(diff[r]) = From(table[r], e.first)
        /\ Len(e.table) + Len(diff[r]) <= Len(table[r]) + StepBlocks
    BY <1>1, <1>5 DEF Synced
  <2> HIDE DEF t, f, e
  <2>4. t \in Lists(TrackedCap) /\ Len(t) \in Nat
    <3>1. \A a, b, c, d, n \in Nat :
            a + b <= c + d /\ c <= n => a + b <= n + d /\ a + b \in Nat
      OBVIOUS
    <3> DEFINE m == Len(e.table)
               n == Len(diff[r])
    <3>2. /\ m \in Nat /\ n \in Nat /\ Len(t) = m + n
          /\ m + n <= Len(table[r]) + StepBlocks
      BY <2>2, <2>3, <1>2
    <3> HIDE DEF m, n
    <3>3. TrackedCap \in Int /\ Len(t) <= TrackedCap /\ Len(t) \in Nat
      BY <3>1, <3>2, <1>2
    <3> QED
      BY <2>2, <3>3, SeqIsList
  <2>5. /\ f.table = t /\ f.first = e.first /\ f.settled = e.settled
        /\ f.scanFrom = e.scanFrom /\ f \in Fill
    BY <2>1, <2>4, <1>2 DEF Fill
  <2>6. ASSUME NEW k \in 1 .. Len(t), e.first <= k, k < e.scanFrom
        PROVE  t[k] \in e.settled
    <3>1. \A a, b, c \in Nat : c < a /\ a <= b + 1 => c <= b
      OBVIOUS
    <3>2. k \in Nat /\ 1 <= k /\ k <= Len(e.table)
      BY <2>4, <2>6, <3>1, <1>2, <1>3
    <3>3. k \in 1 .. Len(e.table)
      BY <3>2, <1>2
    <3> QED
      BY <2>2, <2>6, <3>3, <1>1 DEF SettledOK
  <2>7. e.scanFrom <= Len(t) + 1 /\ e.first <= Len(t)
    <3>1. \A a, b, c \in Nat : b <= c => (a <= b + 1 => a <= c + 1)
                                          /\ (a <= b => a <= c)
      OBVIOUS
    <3> QED
      BY <2>2, <2>4, <3>1, <1>2, <1>3
  <2>8. SettledOK(f, r)
    BY <2>5, <2>6, <2>7, <1>1 DEF SettledOK
  <2>9. LoadOf(f, r) /\ Covers(f, r)
    BY <2>2, <2>3, <2>5, <1>3 DEF LoadOf, Covers
  <2> QED
    BY <2>5, <2>8, <2>9 DEF f, e
<1> QED
  BY <1>4, <1>5

\* A pass of update_state_after_alloc.
LEMMA UpdateStep ==
  ASSUME GInv, NEW r \in Requests, NEW raises \in BOOLEAN,
         UpdateStateAfterAlloc(r, raises)
  PROVE  /\ GInv' /\ (Covered => Covered')
         /\ \A s \in Requests : reported[s] \subseteq reported'[s]
         /\ \A b \in Blocks : hash'[b] # hash[b] => b \in approx
<1>1. /\ r \in alloc /\ alloc' = {} /\ loadAt' = 0
      /\ UNCHANGED engine /\ UNCHANGED <<pc, diff, rows, resumed>>
  BY DEF UpdateStateAfterAlloc
<1>2. /\ alloc = {r} /\ phase[r] = "running" /\ loadAt \in Nat
      /\ \A s \in Requests : s # r => s \notin alloc
  BY <1>1, TablesAreSeqs DEF GInv, StepOK
<1>3. StepOK' /\ AllocOK'
  BY <1>1, <1>2 DEF GInv, StepOK, AllocOK, engine
<1>4. CASE loadAt > 0
  <2> DEFINE f == [NoFill EXCEPT !.table = table[r], !.first = loadAt]
  <2>1. /\ f \in Fill /\ f.table = table[r] /\ f.first = loadAt
        /\ LoadOf(f, r) /\ Covers(f, r) /\ SettledOK(f, r)
    BY <1>1, <1>4, FreshFill
  <2>2. TrackFilledBlocks(r, f, raises)
    BY <1>4 DEF UpdateStateAfterAlloc
  <2> HIDE DEF f
  <2>3. /\ tracked' \in [Requests -> Fill]
        /\ reported' \in [Requests -> SUBSET Blocks]
        /\ hash' \in [Blocks -> 0 .. PromptBlocks]
        /\ approx' \subseteq Blocks /\ left' \subseteq Blocks
        /\ \A s \in Requests : reported[s] \subseteq reported'[s]
        /\ \A b \in Blocks : hash'[b] # hash[b] => b \in approx
    BY <1>1, <2>1, <2>2, PassTyped
  <2>4. TypeOK'
    BY <2>3, <1>1, Caps DEF GInv, TypeOK, engine
  <2>5. Due(r) = From(f.table, f.first)
    BY <1>1, <2>1 DEF Due
  <2>6. r \notin resumed' =>
          /\ In(diff'[r]) \subseteq From(table[r], f.first)
          /\ Len(f.table) + Len(diff'[r]) <= Len(table[r]) + StepBlocks
    <3>1. /\ Len(diff[r]) \in Nat /\ Len(table[r]) \in Nat /\ StepBlocks \in Nat
          /\ diff'[r] = diff[r] /\ resumed' = resumed
      BY <1>1, TablesAreSeqs, Caps DEF GInv
    <3>2. r \notin resumed => /\ In(diff[r]) \subseteq From(table[r], loadAt)
                              /\ Len(diff[r]) <= StepBlocks
      BY <1>1 DEF GInv, AllocOK
    <3>3. Len(f.table) = Len(table[r]) /\ f.first = loadAt
      BY <2>1
    <3>4. \A a, b, c \in Nat : b <= c => a + b <= a + c
      OBVIOUS
    <3> QED
      BY <3>1, <3>2, <3>3, <3>4
  <2>7. /\ alloc \subseteq {r} /\ rows \ {r} \subseteq rows'
        /\ \A s \in Requests \ {r} :
             diff'[s] = diff[s] /\ (s \in resumed' <=> s \in resumed)
    BY <1>1, <1>2
  <2>8. GInv' /\ (Covered => Covered')
    BY <1>1, <1>3, <2>1, <2>2, <2>4, <2>5, <2>6, <2>7, PassStep
  <2> QED
    BY <2>3, <2>8
<1>5. CASE ~(loadAt > 0)
  <2>1. /\ tracked' = [tracked EXCEPT ![r] = NoFill]
        /\ UNCHANGED <<hash, reported, approx, left>>
    BY <1>5 DEF UpdateStateAfterAlloc
  <2>2. TypeOK'
    BY <1>1, <2>1, NoFillType, Caps DEF GInv, TypeOK, engine
  <2>3. TablesOK' /\ Private' /\ ApproxOK'
    BY <1>1, <2>1
       DEF GInv, TablesOK, Private, ApproxOK, engine, In, From
  <2>4. TrackedOK'
    <3> SUFFICES ASSUME NEW s \in Requests, phase'[s] = "running",
                        tracked'[s] # NoFill
                 PROVE  Synced(s)' /\ SettledOK(tracked[s], s)'
      BY DEF TrackedOK
    <3>1. s # r /\ tracked'[s] = tracked[s]
      BY <2>1 DEF GInv, TypeOK
    <3>2. Synced(s) /\ SettledOK(tracked[s], s)
      BY <3>1, <1>1, <1>2 DEF GInv, TrackedOK, engine
    <3>3. Synced(s)'
      BY <3>1, <3>2, <1>1, SyncedKept DEF engine
    <3>4. SettledOK(tracked[s], s)'
      BY <3>1, <3>2, <1>1, <2>1 DEF SettledOK, Evicts, engine
    <3> QED
      BY <3>3, <3>4
  <2>5. ASSUME Covered PROVE Covered'
    <3>1. Due(r) = {} /\ fillAt[r] = 0
      BY <1>1, <1>2, <1>5 DEF Due, From, GInv, AllocOK
    <3>2. ASSUME NEW b \in approx \ left
          PROVE  \E q \in rows' \cup alloc' : b \in Due(q)'
      <4>1. PICK q \in rows : b \in Due(q) /\ q # r
        BY <2>5, <3>1, <1>2 DEF Covered
      <4>2. q \in Requests /\ q \notin alloc /\ q \notin alloc'
        BY <4>1, <1>1, <1>2 DEF GInv, TypeOK
      <4>3. Due(q)' = Due(q)
        BY <4>1, <4>2, <1>1, <2>1, DueKept DEF GInv, TypeOK
      <4> QED
        BY <4>1, <4>3, <1>1
    <3>3. \A s \in Requests : fillAt[s] > 0 => tracked'[s] # NoFill
      BY <2>1, <2>5, <1>2, <3>1 DEF Covered, GInv, TypeOK
    <3> QED
      BY <2>5, <3>2, <3>3, <1>1, <2>1 DEF Covered, engine
  <2> QED
    BY <1>3, <2>1, <2>2, <2>3, <2>4, <2>5 DEF GInv
<1> QED
  BY <1>4, <1>5

\* A row of build_connector_meta.
LEMMA RowStep ==
  ASSUME GInv, NEW r \in Requests, NEW raises \in BOOLEAN, TrackRow(r, raises)
  PROVE  /\ GInv' /\ (Covered => Covered')
         /\ \A s \in Requests : reported[s] \subseteq reported'[s]
         /\ \A b \in Blocks : hash'[b] # hash[b] => b \in approx
<1>1. /\ pc = "build" /\ r \in rows /\ rows' = rows \ {r}
      /\ resumed' = resumed \ {r} /\ diff' = [diff EXCEPT ![r] = << >>]
      /\ UNCHANGED engine /\ UNCHANGED <<pc, alloc, loadAt>>
  BY DEF TrackRow
<1>2. alloc = {} /\ phase[r] = "running"
  BY <1>1 DEF GInv, StepOK
<1>3. /\ diff' \in [Requests -> Tables] /\ diff'[r] = << >>
      /\ \A s \in Requests \ {r} : diff'[s] = diff[s]
  BY <1>1, NoFillType DEF GInv, TypeOK
<1>4. StepOK' /\ AllocOK'
  BY <1>1, <1>2, <1>3 DEF GInv, StepOK, AllocOK, TypeOK, engine
<1>5. CASE tracked[r] # NoFill
  <2> DEFINE f == ExtendBlockTable(r, tracked[r])
  <2>1. /\ f \in Fill /\ f.first = tracked[r].first
        /\ LoadOf(f, r) /\ Covers(f, r) /\ SettledOK(f, r)
    BY <1>2, <1>5, ExtendedFill
  <2>2. TrackFilledBlocks(r, f, raises)
    BY <1>5 DEF TrackRow
  <2>3. Due(r) = From(f.table, f.first)
    BY <1>2, <2>1 DEF Due
  <2> HIDE DEF f
  <2>4. /\ In(diff'[r]) = {} /\ Len(diff'[r]) = 0
        /\ Len(f.table) + Len(diff'[r]) <= Len(table[r]) + StepBlocks
    <3>1. In(diff'[r]) = {} /\ Len(diff'[r]) = 0
      BY <1>3, NoFillType DEF In
    <3>2. Len(f.table) \in Nat
      BY <2>1, Caps, ListIsSeq DEF Fill
    <3> QED
      BY <2>1, <3>1, <3>2 DEF Covers
  <2>5. /\ tracked' \in [Requests -> Fill]
        /\ reported' \in [Requests -> SUBSET Blocks]
        /\ hash' \in [Blocks -> 0 .. PromptBlocks]
        /\ approx' \subseteq Blocks /\ left' \subseteq Blocks
        /\ \A s \in Requests : reported[s] \subseteq reported'[s]
        /\ \A b \in Blocks : hash'[b] # hash[b] => b \in approx
    BY <1>1, <2>1, <2>2, PassTyped
  <2>6. TypeOK'
    BY <2>5, <1>1, <1>3 DEF GInv, TypeOK, engine
  <2>7. GInv' /\ (Covered => Covered')
    <3>1. /\ alloc' = {} /\ alloc \subseteq {r} /\ rows \ {r} \subseteq rows'
          /\ \A s \in Requests \ {r} :
               diff'[s] = diff[s] /\ (s \in resumed' <=> s \in resumed)
      BY <1>1, <1>2, <1>3
    <3> QED
      BY <3>1, <1>1, <1>4, <2>1, <2>2, <2>3, <2>4, <2>6, PassStep
  <2> QED
    BY <2>5, <2>7
<1>6. CASE tracked[r] = NoFill
  <2>1. UNCHANGED <<hash, tracked, reported, approx, left>>
    BY <1>6 DEF TrackRow, connector
  <2>2. TypeOK'
    BY <1>1, <1>3, <2>1 DEF GInv, TypeOK, engine
  <2>3. TablesOK' /\ Private' /\ ApproxOK'
    BY <1>1, <2>1
       DEF GInv, TablesOK, Private, ApproxOK, engine, In, From
  <2>4. TrackedOK'
    <3> SUFFICES ASSUME NEW s \in Requests, phase'[s] = "running",
                        tracked'[s] # NoFill
                 PROVE  Synced(s)' /\ SettledOK(tracked[s], s)'
      BY DEF TrackedOK
    <3>1. s # r /\ tracked'[s] = tracked[s] /\ diff'[s] = diff[s]
      BY <2>1, <1>3, <1>6
    <3>2. Synced(s) /\ SettledOK(tracked[s], s)
      BY <3>1, <1>1, <1>2 DEF GInv, TrackedOK, engine
    <3>3. s \in resumed' <=> s \in resumed
      BY <3>1, <1>1
    <3>4. Synced(s)'
      BY <3>1, <3>2, <3>3, <1>1, SyncedKept DEF engine
    <3>5. SettledOK(tracked[s], s)'
      BY <3>1, <3>2, <1>1, <2>1 DEF SettledOK, Evicts, engine
    <3> QED
      BY <3>4, <3>5
  <2>5. ASSUME Covered PROVE Covered'
    <3>1. Due(r) = {}
      BY <1>2, <1>6 DEF Due, From, NoFill
    <3>2. ASSUME NEW b \in approx \ left
          PROVE  \E q \in rows' \cup alloc' : b \in Due(q)'
      <4>1. PICK q \in rows : b \in Due(q) /\ q # r
        BY <2>5, <3>1, <1>2 DEF Covered
      <4>2. q \in Requests /\ q \notin alloc /\ q \notin alloc'
        BY <1>1, <1>2 DEF GInv, TypeOK
      <4>3. Due(q)' = Due(q)
        BY <4>1, <4>2, <1>1, <1>3, <2>1, DueKept
      <4> QED
        BY <4>1, <4>3, <1>1
    <3> QED
      BY <2>5, <3>2, <1>1, <2>1 DEF Covered, engine
  <2> QED
    BY <1>4, <2>1, <2>2, <2>3, <2>4, <2>5 DEF GInv
<1> QED
  BY <1>5, <1>6

-----------------------------------------------------------------------------
(***************************************************************************)
(* The other steps.                                                        *)
(***************************************************************************)

\* A request gives up its blocks: it finishes or is preempted. Its row, if it
\* had one, is gone by then.
LEMMA FreeStep ==
  ASSUME GInv, NEW r \in Requests, RequestFinished(r) \/ Preempt(r)
  PROVE  GInv' /\ (MaxUses <= 1 /\ Covered => Covered')
<1> USE DEF GInv, step, connector
<1>1. /\ table' = [table EXCEPT ![r] = << >>] /\ full' = [full EXCEPT ![r] = 0]
      /\ fillAt' = [fillAt EXCEPT ![r] = 0]
      /\ phase' \in [Requests -> {"none", "waiting", "running", "preempted"}]
      /\ phase'[r] # "running" /\ phase[r] # "none"
      /\ \A s \in Requests \ {r} : phase'[s] = phase[s]
      /\ UNCHANGED <<use, hash, diff, rows, resumed, alloc, loadAt, approx, left>>
      /\ pc = "between" \/ pc' # "between"
      /\ pc' \in {"between", "tight"} /\ preempts' \in 0 .. MaxPreempts
  <2>1. CASE RequestFinished(r)
    BY <2>1 DEF RequestFinished, TypeOK
  <2>2. CASE Preempt(r)
    BY <2>2, BoundAssumption DEF Preempt, RunningLoop, TypeOK
  <2> QED
    BY <2>1, <2>2
<1>2. r \notin rows /\ r \notin resumed /\ alloc = {}
  BY <1>1 DEF RequestFinished, Preempt, RunningLoop, StepOK, TypeOK
<1>3. /\ tracked' \in [Requests -> Fill]
      /\ reported' \in [Requests -> SUBSET Blocks] /\ gone' \subseteq Requests
      /\ \A s \in Requests \ {r} : tracked'[s] = tracked[s]
  <2>1. CASE RequestFinished(r)
    <3>1. /\ tracked' = [tracked EXCEPT ![r] = NoFill]
          /\ reported' = [reported EXCEPT ![r] = {}] /\ gone' = gone \cup {r}
      BY <2>1 DEF RequestFinished
    <3> QED
      BY <3>1, NoFillType DEF TypeOK
  <2>2. CASE Preempt(r)
    BY <2>2 DEF Preempt, TypeOK
  <2> QED
    BY <2>1, <2>2
<1>4. /\ table' \in [Requests -> Tables] /\ full' \in [Requests -> 0 .. PromptBlocks]
      /\ fillAt' \in [Requests -> 0 .. PromptBlocks]
      /\ table'[r] = << >> /\ full'[r] = 0 /\ fillAt'[r] = 0
      /\ \A s \in Requests \ {r} : /\ table'[s] = table[s] /\ full'[s] = full[s]
                                   /\ fillAt'[s] = fillAt[s]
  BY <1>1, NoFillType, BoundAssumption DEF TypeOK
<1>5. TypeOK'
  BY <1>1, <1>3, <1>4 DEF TypeOK
<1>6. StepOK' /\ AllocOK'
  BY <1>1, <1>2, <1>4 DEF StepOK, AllocOK, TypeOK
<1>7. Len(table'[r]) = 0 /\ In(table'[r]) = {}
  BY <1>4, NoFillType DEF In
<1>8. TablesOK'
  <2> SUFFICES ASSUME NEW s \in Requests
               PROVE  /\ phase'[s] # "running"
                           => table'[s] = << >> /\ fillAt'[s] = 0
                      /\ full'[s] <= Len(table'[s])
                      /\ fillAt'[s] <= Len(table'[s])
                      /\ \A i, j \in 1 .. Len(table'[s]) :
                           table'[s][i] = table'[s][j] => i = j
    BY DEF TablesOK
  <2> QED
    BY <1>1, <1>4, <1>7 DEF TablesOK
<1>9. Private'
  <2> SUFFICES ASSUME NEW s \in Requests,
                      NEW k \in full'[s] + 1 .. Len(table'[s])
               PROVE  /\ hash'[table'[s][k]] = 0
                      /\ \A q \in Requests \ {s} : table'[s][k] \notin In(table'[q])
    BY DEF Private, In
  <2>1. s # r
    BY <1>4, <1>7
  <2>2. \A q \in Requests \ {r} : In(table'[q]) = In(table[q])
    BY <1>4 DEF In
  <2> QED
    BY <2>1, <2>2, <1>1, <1>4, <1>7 DEF Private
<1>10. ApproxOK'
  <2>1. From(table'[r], fillAt'[r]) = {}
    BY <1>4 DEF From
  <2> QED
    BY <2>1, <1>1, <1>4 DEF ApproxOK
<1>11. TrackedOK'
  <2> SUFFICES ASSUME NEW s \in Requests \ alloc', phase'[s] = "running",
                      tracked'[s] # NoFill
               PROVE  Synced(s)' /\ SettledOK(tracked[s], s)'
    BY DEF TrackedOK
  <2>1. s # r /\ tracked'[s] = tracked[s] /\ phase[s] = "running"
    BY <1>1, <1>3
  <2>2. Synced(s) /\ SettledOK(tracked[s], s)
    BY <2>1, <1>2 DEF TrackedOK
  <2>3. Synced(s)'
    BY <2>1, <2>2, <1>1, <1>4, SyncedKept
  <2>4. SettledOK(tracked[s], s)'
    BY <2>1, <2>2, <1>1, <1>4 DEF SettledOK, Evicts
  <2> QED
    BY <2>3, <2>4
<1>12. ASSUME MaxUses <= 1, Covered PROVE Covered'
  <2>1. \A s \in gone' : phase'[s] = "none" /\ use'[s] = MaxUses
    <3>1. CASE Preempt(r)
      <4>1. gone' = gone /\ r \notin gone
        BY <1>1, <1>12, <3>1 DEF Preempt, Covered
      <4> QED
        BY <4>1, <1>1, <1>12 DEF Covered, TypeOK
    <3>2. CASE RequestFinished(r)
      <4>1. use[r] = MaxUses
        BY <1>1, <1>12, BoundAssumption DEF Covered, TypeOK
      <4>2. gone' = gone \cup {r} /\ phase'[r] = "none"
        BY <3>2 DEF RequestFinished, TypeOK
      <4> QED
        BY <4>1, <4>2, <1>1, <1>12 DEF Covered, TypeOK
    <3> QED
      BY <3>1, <3>2
  <2>2. \A s \in Requests : phase'[s] # "none" => use'[s] > 0
    BY <1>1, <1>12 DEF Covered
  <2>3. \A s \in Requests \ alloc' : fillAt'[s] > 0 => tracked'[s] # NoFill
    BY <1>1, <1>3, <1>4, <1>12 DEF Covered
  <2>4. \A b \in approx' \ left' : \E q \in rows' \cup alloc' : b \in Due(q)'
    <3> SUFFICES ASSUME NEW b \in approx' \ left'
                 PROVE  \E q \in rows' \cup alloc' : b \in Due(q)'
      OBVIOUS
    <3>1. PICK q \in rows : b \in Due(q)
      BY <1>1, <1>2, <1>12 DEF Covered
    <3>2. q \in Requests /\ q # r
      BY <1>2, <3>1 DEF TypeOK
    <3>3. Due(q)' = Due(q)
      BY <3>2, <1>1, <1>2, <1>3, DueKept
    <3> QED
      BY <3>1, <3>3, <1>1
  <2> QED
    BY <2>1, <2>2, <2>3, <2>4 DEF Covered
<1> QED
  BY <1>5, <1>6, <1>8, <1>9, <1>10, <1>11, <1>12

\* A step that leaves the pool and the tables alone.
LEMMA QuietStep ==
  ASSUME GInv, TypeOK', StepOK',
         UNCHANGED <<table, full, fillAt, hash, step, approx, left>>,
         \A s \in Requests : phase'[s] # phase[s]
           => phase'[s] # "running" /\ phase[s] # "running",
         \A s \in Requests : tracked'[s] # tracked[s] => tracked'[s] = NoFill
  PROVE  GInv'
<1> USE DEF GInv, step
<1>1. TablesOK'
  BY DEF TablesOK
<1>2. Private' /\ ApproxOK'
  BY DEF Private, ApproxOK, In, From
<1>3. TrackedOK'
  <2> SUFFICES ASSUME NEW s \in Requests \ alloc', phase'[s] = "running",
                      tracked'[s] # NoFill
               PROVE  Synced(s)' /\ SettledOK(tracked[s], s)'
    BY DEF TrackedOK
  <2>1. phase[s] = "running" /\ tracked'[s] = tracked[s]
    OBVIOUS
  <2>2. Synced(s) /\ SettledOK(tracked[s], s)
    BY <2>1 DEF TrackedOK
  <2>3. Synced(s)'
    BY <2>1, <2>2, SyncedKept
  <2>4. SettledOK(tracked[s], s)'
    BY <2>1, <2>2 DEF SettledOK, Evicts
  <2> QED
    BY <2>3, <2>4
<1>4. AllocOK'
  <2>1. ASSUME NEW s PROVE /\ In(diff[s])' = In(diff[s])
                           /\ From(table[s], loadAt)' = From(table[s], loadAt)
    BY DEF From, In
  <2> QED
    BY <2>1 DEF AllocOK
<1> QED
  BY <1>1, <1>2, <1>3, <1>4

\* The invariant is inductive, the part without reuse for ids used once.
LEMMA NextGInv ==
  ASSUME GInv, [Next]_vars
  PROVE  GInv' /\ (MaxUses <= 1 /\ Covered => Covered')
<1>1. ASSUME NEW r \in Requests, Arrive(r)
      PROVE  GInv' /\ (Covered => Covered')
  <2>1. TypeOK' /\ StepOK'
    BY <1>1, BoundAssumption
       DEF Arrive, GInv, TypeOK, StepOK, step, connector
  <2>2. /\ UNCHANGED <<table, full, fillAt, gone, hash, step, tracked, approx,
                       left>>
        /\ \A s \in Requests \ {r} : phase'[s] = phase[s] /\ use'[s] = use[s]
        /\ phase[r] = "none" /\ phase'[r] = "waiting"
        /\ use'[r] = use[r] + 1 /\ use[r] < MaxUses
    BY <1>1 DEF Arrive, GInv, TypeOK, connector
  <2>3. GInv'
    BY <2>1, <2>2, QuietStep
  <2>4. ASSUME Covered PROVE Covered'
    <3>1. r \notin gone
      BY <2>2, <2>4, BoundAssumption DEF Covered, GInv, TypeOK
    <3>2. use[r] \in Nat /\ gone \subseteq Requests
      BY BoundAssumption DEF GInv, TypeOK
    <3>3. \A q \in rows \cup alloc : Due(q)' = Due(q)
      BY <2>2 DEF Due, ExtendBlockTable, From, step
    <3> QED
      BY <2>2, <2>4, <3>1, <3>2, <3>3 DEF Covered, step
  <2> QED
    BY <2>3, <2>4
<1>2. ASSUME NEW r \in Requests, NEW raises \in {FALSE, EvictRaises},
             UpdateStateAfterAlloc(r, raises) \/ TrackRow(r, raises)
      PROVE  GInv' /\ (Covered => Covered')
  <2>1. raises \in BOOLEAN
    BY KnobAssumption
  <2> QED
    BY <1>2, <2>1, UpdateStep, RowStep
<1>3. ASSUME BuildBegin PROVE GInv' /\ (Covered => Covered')
  <2>1. TypeOK' /\ StepOK'
    BY <1>3, NoFillType DEF BuildBegin, GInv, TypeOK, StepOK, step
  <2>2. /\ UNCHANGED <<use, phase, table, full, fillAt, hash, step, approx, left>>
        /\ \A s \in Requests : tracked'[s] = IF s \in gone THEN NoFill
                                                           ELSE tracked[s]
        /\ gone' = {}
    BY <1>3 DEF BuildBegin
  <2>3. GInv'
    BY <2>1, <2>2, QuietStep
  <2>4. ASSUME Covered PROVE Covered'
    <3>1. \A s \in gone : fillAt[s] = 0
      BY <2>4 DEF Covered, GInv, TypeOK, TablesOK
    <3>2. rows \subseteq Requests /\ alloc = {}
      BY <1>3 DEF BuildBegin, GInv, TypeOK
    <3>3. ASSUME NEW q \in rows PROVE Due(q)' = Due(q)
      <4>1. q \in Requests /\ q \notin gone
        BY <2>4, <3>2 DEF Covered, GInv, StepOK
      <4> QED
        BY <4>1, <2>2, <3>2, DueKept DEF step
    <3> QED
      BY <2>2, <2>4, <3>1, <3>2, <3>3 DEF Covered, step
  <2> QED
    BY <2>3, <2>4
<1>4. ASSUME Schedule \/ BuildEnd \/ UNCHANGED vars
      PROVE  GInv' /\ (Covered => Covered')
  <2>1. TypeOK' /\ StepOK'
    BY <1>4
       DEF Schedule, BuildEnd, vars, GInv, TypeOK, StepOK, step, engine, connector
  <2>2. UNCHANGED <<use, phase, table, full, fillAt, gone, hash, step, tracked,
                    approx, left>>
    BY <1>4 DEF Schedule, BuildEnd, vars, engine, connector
  <2>3. GInv'
    BY <2>1, <2>2, QuietStep
  <2>4. \A q : Due(q)' = Due(q)
    BY <2>2 DEF Due, ExtendBlockTable, From, step
  <2> QED
    BY <2>2, <2>3, <2>4 DEF Covered, step
<1>5. ASSUME NEW r \in Requests, Grow(r) \/ GrowForLoad(r) \/ Allocate(r)
      PROVE  GInv' /\ (Covered => Covered')
  BY <1>5, GrowStep, GrowForLoadStep, AllocateStep
<1>6. ASSUME NEW r \in Requests, RequestFinished(r) \/ Preempt(r)
      PROVE  GInv' /\ (MaxUses <= 1 /\ Covered => Covered')
  BY <1>6, FreeStep
<1> QED
  BY <1>1, <1>2, <1>3, <1>4, <1>5, <1>6 DEF Next

-----------------------------------------------------------------------------
(***************************************************************************)
(* The theorems.                                                           *)
(***************************************************************************)

\* The invariant holds in every reachable state.
LEMMA AlwaysGInv == Spec => []GInv
<1>1. Init => GInv
  BY InitGInv
<1>2. GInv /\ [Next]_vars => GInv'
  BY NextGInv
<1> QED
  BY <1>1, <1>2, PTL DEF Spec

\* Without reuse of request ids the second part holds as well.
LEMMA AlwaysCovered ==
  ASSUME MaxUses <= 1
  PROVE  Spec => [](GInv /\ Covered)
<1>1. Init => GInv /\ Covered
  BY InitGInv
<1>2. (GInv /\ Covered) /\ [Next]_vars => (GInv /\ Covered)'
  BY NextGInv
<1> QED
  BY <1>1, <1>2, PTL DEF Spec

\* The model is well typed: in particular the block table and the cursor that
\* the connector keeps of a fill never outgrow the prompt by more than the
\* blocks of one step, which a load in the middle of a prefill lists twice
\* (_FilledBlocks).
THEOREM TypeCorrect == Spec => []TypeOK
  BY AlwaysGInv, PTL DEF GInv

\* While a request runs, the next pass over its entry finds every block that
\* its loads contaminated and that is still cached, but for those before its
\* last load (_settle, _cached_fill_blocks, _extend_block_table). It needs that
\* no id is used again, as CleanCorrect does.
THEOREM CursorCorrect ==
  ASSUME MaxUses <= 1
  PROVE  Spec => []NothingSkipped
<1>1. GInv /\ Covered => NothingSkipped
  <2> SUFFICES ASSUME GInv, Covered, NEW r \in Requests, phase[r] = "running",
                      r \notin alloc, Evicts(r), fillAt[r] > 0,
                      NEW k \in fillAt[r] .. Len(table[r]),
                      hash[table[r][k]] # 0,
                      ~(k < ExtendBlockTable(r, tracked[r]).first)
               PROVE  table[r][k] \in
                        CachedFillBlocks(ExtendBlockTable(r, tracked[r]), hash)
    BY DEF NothingSkipped
  <2> DEFINE f == ExtendBlockTable(r, tracked[r])
             b == table[r][k]
  <2>1. tracked[r] # NoFill
    BY DEF Covered
  <2>2. /\ f \in Fill /\ LoadOf(f, r) /\ Covers(f, r) /\ SettledOK(f, r)
    BY <2>1, ExtendedFill
  <2> HIDE DEF f
  <2>3. /\ f.first \in Nat /\ f.scanFrom \in Nat /\ Len(f.table) \in Nat
        /\ Len(table[r]) \in Nat /\ fillAt[r] \in Nat
    BY <2>2, TablesAreSeqs, Caps, ListIsSeq DEF GInv, Fill
  <2>4. k \in 1 .. Len(table[r]) /\ k >= f.first /\ f.first > 0
    BY <2>2, <2>3 DEF LoadOf, f
  <2>5. b \in From(f.table, f.first)
    BY <2>2, <2>4 DEF From, Covers
  <2>6. PICK j \in 1 .. Len(f.table) : b = f.table[j] /\ j >= f.first
    BY <2>5 DEF From
  <2>7. b \notin f.settled
    BY <2>2 DEF SettledOK
  <2>8. j >= ScanStart(f)
    BY <2>2, <2>3, <2>6, <2>7 DEF SettledOK, ScanStart
  <2>9. b \in CachedFillBlocks(f, hash)
    BY <2>6, <2>7, <2>8 DEF CachedFillBlocks
  <2> QED
    BY <2>9 DEF f
<1> QED
  BY <1>1, AlwaysCovered, PTL

\* The connector takes no block out of the prefix cache that holds the KV of
\* an ordinary prefill (_track_filled_blocks).
THEOREM EvictionCorrect == Spec => OnlyFillsEvicted
<1> DEFINE P == \A b \in Blocks :
                  (alloc # {} \/ pc = "build") /\ hash[b] # 0 /\ hash'[b] = 0
                    => b \in approx
<1>1. ASSUME GInv, [Next]_vars PROVE P
  <2> SUFFICES ASSUME NEW b \in Blocks, alloc # {} \/ pc = "build",
                      hash[b] # hash'[b]
               PROVE  b \in approx
    OBVIOUS
  <2>1. ASSUME NEW r \in Requests, NEW raises \in {FALSE, EvictRaises},
               UpdateStateAfterAlloc(r, raises) \/ TrackRow(r, raises)
        PROVE  b \in approx
    <3>1. raises \in BOOLEAN
      BY KnobAssumption
    <3> QED
      BY <1>1, <2>1, <3>1, UpdateStep, RowStep
  <2>2. ASSUME NEW r \in Requests,
               Arrive(r) \/ RequestFinished(r) \/ Grow(r) \/ GrowForLoad(r)
                 \/ Preempt(r) \/ Allocate(r)
        PROVE  FALSE
    BY <1>1, <2>2 DEF Arrive, RequestFinished, Grow, GrowForLoad, Preempt,
                      Allocate, RunningLoop, GInv, StepOK
  <2>3. ASSUME Schedule \/ BuildBegin \/ BuildEnd \/ UNCHANGED vars
        PROVE  FALSE
    BY <2>3 DEF Schedule, BuildBegin, BuildEnd, vars
  <2> QED
    BY <1>1, <2>1, <2>2, <2>3 DEF Next
<1>2. GInv /\ [Next]_vars => [P]_vars
  BY <1>1
<1> QED
  BY <1>2, AlwaysGInv, PTL DEF Spec, OnlyFillsEvicted

\* Between two steps no approximate block can be found in the exact prefix
\* cache, but for what a pass saw and had to leave (_track_running_fills). It
\* needs that no id is used again: the id of a request that finished and came
\* back before the finish was shipped loses its fill to the shipping.
THEOREM CleanCorrect ==
  ASSUME MaxUses <= 1
  PROVE  Spec => []CleanAfterStep
<1>1. GInv /\ Covered => CleanAfterStep
  BY DEF GInv, StepOK, Covered, CleanAfterStep
<1> QED
  BY <1>1, AlwaysCovered, PTL

\* The ledger of the blocks a request was counted for never shrinks while the
\* request lives (_reported_fill_blocks), again for ids that are used once.
THEOREM LedgerCorrect ==
  ASSUME MaxUses <= 1
  PROVE  Spec => LedgerKept
<1> DEFINE P == \A r \in Requests :
                  phase[r] # "none" /\ phase'[r] # "none"
                    => reported[r] \subseteq reported'[r]
<1>1. ASSUME GInv, Covered, [Next]_vars PROVE P
  <2>1. ASSUME NEW r \in Requests, NEW raises \in {FALSE, EvictRaises},
               UpdateStateAfterAlloc(r, raises) \/ TrackRow(r, raises)
        PROVE  P
    <3>1. raises \in BOOLEAN
      BY KnobAssumption
    <3> QED
      BY <1>1, <2>1, <3>1, UpdateStep, RowStep
  <2>2. ASSUME NEW r \in Requests, RequestFinished(r) PROVE P
    BY <1>1, <2>2 DEF RequestFinished, GInv, TypeOK
  <2>3. ASSUME BuildBegin PROVE P
    BY <1>1, <2>3 DEF BuildBegin, Covered
  <2>4. CASE UNCHANGED reported
    BY <2>4
  <2> QED
    BY <1>1, <2>1, <2>2, <2>3, <2>4
       DEF Next, Schedule, BuildEnd, Arrive, Grow, GrowForLoad, Preempt,
           Allocate, vars, connector
<1>2. (GInv /\ Covered) /\ [Next]_vars => [P]_vars
  BY <1>1
<1> QED
  BY <1>2, AlwaysCovered, PTL DEF Spec, LedgerKept
=============================================================================
