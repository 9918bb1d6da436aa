---------------------- MODULE DynamicIoRuntime_proofs ----------------------
(***************************************************************************)
(* Proofs about the bucket cache, for every number of buckets, lanes,      *)
(* slots, generations and graphs.  A call first reclaims the recovered     *)
(* lanes and then goes on with the buckets it has by then; so the parts of *)
(* the invariant are stated of any tables, and each operation has a lemma  *)
(* about the tables that it makes.                                         *)
(***************************************************************************)
EXTENDS DynamicIoRuntime, FiniteSetTheorems, FunctionTheorems, WellFoundedInduction, TLAPS

(***************************************************************************)
(* The inductive invariant                                                 *)
(***************************************************************************)
Bucket == [key : Keys, id : Ids, graph : Graphs \cup {None}, idle : SUBSET Nat,
           busy : SUBSET Nat, detached : Nat]
Slot == [generation : 1..MaxGeneration, index : Nat \cup {None}]

Occurs(x, s) == \E n \in DOMAIN s : s[n] = x

\* The tables have their types, and every cached shape has a time of its last use.
TableType(bs, lr, sl, fr) ==
    /\ bs \in Seq(Bucket) /\ Len(bs) <= MaxBuckets
    /\ lr \in Seq(Keys)
    /\ sl \in Seq(Slot) /\ Len(sl) <= MaxSlots
    /\ fr \in Seq(1..MaxSlots)
    /\ \A i \in DOMAIN bs : Occurs(bs[i].key, lr)

\* SlotTableIsExact, of any tables.
TableInv(bs, sl, fr) ==
    /\ \A i \in DOMAIN bs :
          /\ bs[i].id.slot \in DOMAIN sl
          /\ sl[bs[i].id.slot].generation = bs[i].id.generation
          /\ sl[bs[i].id.slot].index = i
    /\ \A i, j \in DOMAIN bs : bs[i].key = bs[j].key => i = j
    /\ \A s \in DOMAIN sl :
          sl[s].index # None => sl[s].index \in DOMAIN bs /\ bs[sl[s].index].id.slot = s
    /\ \A n \in DOMAIN fr : fr[n] \in DOMAIN sl /\ sl[fr[n]].index = None
    /\ \A m, n \in DOMAIN fr : fr[m] = fr[n] => m = n

\* No id was issued with a generation that its slot has yet to give.
IssuedInv(bs, sl, fr, ids) ==
    /\ ids \subseteq Ids
    /\ \A i \in DOMAIN bs : bs[i].id \in ids
    /\ \A id \in ids : id.slot \in DOMAIN sl /\ id.generation <= sl[id.slot].generation
    /\ \A id \in ids, n \in DOMAIN fr : fr[n] = id.slot => id.generation < sl[id.slot].generation

\* The cells of the lanes in a set that belong to an id.
CellsIn(S, id) == {r.cell : r \in {x \in S : x.id = id}}
Out(id, toks, rec, gn) == CellsIn(toks, id) \cup CellsIn(rec, id) \cup CellsIn(gn, id)

\* Every lane of the bucket is in one place, once, and its detached count is exact.
LaneInv(b, toks, rec, gn) ==
    /\ b.idle \cup b.busy \cup Out(b.id, toks, rec, gn) = CellsOf(b.id.slot)
    /\ b.idle \cap b.busy = {}
    /\ (b.idle \cup b.busy) \cap Out(b.id, toks, rec, gn) = {}
    /\ b.detached = Cardinality(Out(b.id, toks, rec, gn))
    /\ \A r, q \in toks : r.id = b.id /\ q.id = b.id /\ r.cell = q.cell => r = q
    /\ CellsIn(toks, b.id) \cap CellsIn(rec, b.id) = {}
    /\ CellsIn(toks, b.id) \cap CellsIn(gn, b.id) = {}
    /\ CellsIn(rec, b.id) \cap CellsIn(gn, b.id) = {}

LanesInv(bs, toks, rec, gn) == \A i \in DOMAIN bs : LaneInv(bs[i], toks, rec, gn)

\* The lanes of a set have a bucket.
HomeInv(bs, S) == \A r \in S : \E i \in DOMAIN bs : bs[i].id = r.id

\* Every graph was numbered, belongs to one bucket and to the tokens of that bucket; a
\* released one has neither bucket nor token nor leaked work, and a bucket whose graph
\* has leaked work has lost a lane.
GraphInv(bs, toks, gn, graphs, rel, unf) ==
    /\ \A i \in DOMAIN bs :
          bs[i].graph # None =>
              /\ bs[i].graph \in 1..graphs
              /\ bs[i].graph \notin rel
              /\ bs[i].graph \in unf => \E r \in gn : r.id = bs[i].id
              /\ \A j \in DOMAIN bs : bs[j].graph = bs[i].graph => j = i
    /\ \A r \in toks :
          r.graph # None => r.graph \in 1..graphs /\ r.graph \notin rel
    /\ \A r \in toks, i \in DOMAIN bs : bs[i].id = r.id => bs[i].graph = r.graph
    /\ rel \subseteq 1..graphs /\ unf \subseteq 1..graphs
    /\ rel \cap unf = {}

\* A plan fits the cache, and while it is installed the cache holds planned shapes only.
PlanInv(bs) ==
    \A p \in shape_plan :
        /\ shape_plan = {p}
        /\ Cardinality(p) <= MaxBuckets
        /\ \A i \in DOMAIN bs : bs[i].key \in p

\* What is out of the tables has its type, and a dropped runtime has no bucket.
LaneTypes ==
    /\ tokens \subseteq [cell : Nat, id : issued, graph : Graphs \cup {None}, busy : BOOLEAN]
    /\ recovered \subseteq [cell : Nat, id : issued] /\ gone \subseteq [cell : Nat, id : issued]

RestTypes ==
    /\ cuda_graph \in BOOLEAN /\ alive \in BOOLEAN /\ (~alive => buckets = <<>>)
    /\ shape_plan \subseteq SUBSET Keys
    /\ next_graph \in 0..MaxGraphs
    /\ retired \subseteq [graph : Graphs, done : BOOLEAN]

IInv ==
    /\ TableType(buckets, lru, prepared_slots, free_prepared_slots)
    /\ TableInv(buckets, prepared_slots, free_prepared_slots)
    /\ IssuedInv(buckets, prepared_slots, free_prepared_slots, issued)
    /\ LaneTypes
    /\ LanesInv(buckets, tokens, recovered, gone)
    /\ alive => HomeInv(buckets, tokens \cup recovered)
    /\ GraphInv(buckets, tokens, gone, next_graph, released, unfenced)
    /\ PlanInv(buckets)
    /\ RestTypes

(***************************************************************************)
(* Sets of lanes                                                           *)
(***************************************************************************)
LEMMA CellsAreFinite ==
  ASSUME NEW s \in 1..MaxSlots
  PROVE  CellsOf(s) \subseteq Nat /\ IsFiniteSet(CellsOf(s))
<1> DEFINE f == [j \in 1..LaneCount |-> (s - 1) * LaneCount + j]
<1>1. LaneCount \in Nat /\ MaxSlots \in Nat
  BY BoundsAssumption
<1>2. (s - 1) * LaneCount \in Nat
  BY <1>1
<1>3. CellsOf(s) \subseteq Nat
  BY <1>1, <1>2 DEF CellsOf
<1>4. f \in Surjection(1..LaneCount, CellsOf(s))
  BY Fun_IsSurj DEF CellsOf
<1>5. IsFiniteSet(1..LaneCount)
  BY <1>1, FS_Interval
<1> QED
  BY <1>3, <1>4, <1>5, FS_Surjection

\* The count of a bucket is a number, and it is zero when nothing is out.
LEMMA OutIsFinite ==
  ASSUME NEW b \in Bucket, NEW toks, NEW rec, NEW gn, LaneInv(b, toks, rec, gn)
  PROVE  /\ IsFiniteSet(Out(b.id, toks, rec, gn))
         /\ b.detached = 0 <=> Out(b.id, toks, rec, gn) = {}
         /\ Out(b.id, toks, rec, gn) \subseteq Nat
<1>1. b.id.slot \in 1..MaxSlots
  BY DEF Bucket, Ids
<1>2. Out(b.id, toks, rec, gn) \in SUBSET CellsOf(b.id.slot)
  BY DEF LaneInv
<1>3. IsFiniteSet(Out(b.id, toks, rec, gn))
  BY <1>1, <1>2, CellsAreFinite, FS_Subset
<1>4. b.detached = Cardinality(Out(b.id, toks, rec, gn))
  BY DEF LaneInv
<1>5. Out(b.id, toks, rec, gn) \subseteq Nat
  BY <1>1, <1>2, CellsAreFinite
<1> QED
  BY <1>3, <1>4, <1>5, FS_EmptySet

\* A bucket does not notice what happens to the lanes of others.
LEMMA LanesOfOthers ==
  ASSUME NEW b, NEW toks, NEW rec, NEW gn, NEW toks2, NEW rec2, NEW gn2,
         LaneInv(b, toks, rec, gn),
         {x \in toks2 : x.id = b.id} = {x \in toks : x.id = b.id},
         {x \in rec2 : x.id = b.id} = {x \in rec : x.id = b.id},
         {x \in gn2 : x.id = b.id} = {x \in gn : x.id = b.id}
  PROVE  LaneInv(b, toks2, rec2, gn2)
<1>1. /\ CellsIn(toks2, b.id) = CellsIn(toks, b.id)
      /\ CellsIn(rec2, b.id) = CellsIn(rec, b.id)
      /\ CellsIn(gn2, b.id) = CellsIn(gn, b.id)
  BY Zenon DEF CellsIn
<1>2. Out(b.id, toks2, rec2, gn2) = Out(b.id, toks, rec, gn)
  BY <1>1 DEF Out
<1>3. \A r, q \in toks2 : r.id = b.id /\ q.id = b.id /\ r.cell = q.cell => r = q
  BY DEF LaneInv
<1> QED
  BY <1>1, <1>2, <1>3 DEF LaneInv

\* What a change of its lanes leaves of a bucket.
LEMMA BucketWith ==
  ASSUME NEW b \in Bucket, NEW x \in SUBSET Nat, NEW y \in SUBSET Nat, NEW n \in Nat
  PROVE  LET d == [b EXCEPT !.idle = x, !.busy = y, !.detached = n]
         IN  /\ d \in Bucket /\ d.idle = x /\ d.busy = y /\ d.detached = n
             /\ d.key = b.key /\ d.id = b.id /\ d.graph = b.graph
<1> DEFINE d == [b EXCEPT !.idle = x, !.busy = y, !.detached = n]
<1>1. d \in Bucket
  BY DEF Bucket
<1>2. d.idle = x /\ d.busy = y /\ d.detached = n
  BY DEF Bucket
<1>3. d.key = b.key /\ d.id = b.id /\ d.graph = b.graph
  BY DEF Bucket
<1> QED
  BY <1>1, <1>2, <1>3

\* A lane that leaves its bucket with a token.
LEMMA LaneIntoToken ==
  ASSUME NEW b \in Bucket, NEW toks, NEW rec, NEW gn, LaneInv(b, toks, rec, gn),
         NEW c \in b.idle \cup b.busy, NEW r, r.id = b.id, r.cell = c
  PROVE  LET d == [b EXCEPT !.idle = @ \ {c}, !.busy = @ \ {c}, !.detached = @ + 1]
         IN  d \in Bucket /\ LaneInv(d, toks \cup {r}, rec, gn)
<1> DEFINE d == [b EXCEPT !.idle = @ \ {c}, !.busy = @ \ {c}, !.detached = @ + 1]
           O == Out(b.id, toks, rec, gn)
           P == Out(b.id, toks \cup {r}, rec, gn)
<1>1. /\ d.idle = b.idle \ {c} /\ d.busy = b.busy \ {c} /\ d.detached = b.detached + 1
      /\ d.id = b.id /\ d \in Bucket
  <2>1. b.idle \in SUBSET Nat /\ b.busy \in SUBSET Nat /\ b.detached \in Nat
    BY DEF Bucket
  <2>2. b.idle \ {c} \in SUBSET Nat /\ b.busy \ {c} \in SUBSET Nat /\ b.detached + 1 \in Nat
    BY <2>1
  <2>3. d \in Bucket
    BY <2>2, BucketWith
  <2> QED
    BY <2>2, <2>3 DEF Bucket
<1>2. CellsIn(toks \cup {r}, b.id) = CellsIn(toks, b.id) \cup {c}
  BY DEF CellsIn
<1>3. P = O \cup {c}
  BY <1>2 DEF Out
<1>4. c \notin O
  BY DEF LaneInv
<1>5. Cardinality(P) = b.detached + 1
  <2>1. IsFiniteSet(O) /\ Cardinality(O) = b.detached
    BY OutIsFinite DEF LaneInv
  <2> HIDE DEF O, P
  <2> QED
    BY <1>3, <1>4, <2>1, FS_AddElement
<1>6. c \notin CellsIn(toks, b.id) /\ c \notin CellsIn(rec, b.id) /\ c \notin CellsIn(gn, b.id)
  BY <1>4 DEF Out
<1>7. \A q \in toks : q.id = b.id => q.cell # c
  BY <1>6 DEF CellsIn
<1> HIDE DEF O, P, d
<1>8. /\ d.idle \cup d.busy \cup P = CellsOf(d.id.slot)
      /\ d.idle \cap d.busy = {}
      /\ (d.idle \cup d.busy) \cap P = {}
  BY <1>1, <1>3 DEF LaneInv, O
<1>9. \A p, q \in toks \cup {r} : p.id = b.id /\ q.id = b.id /\ p.cell = q.cell => p = q
  BY <1>7 DEF LaneInv
<1>10. /\ CellsIn(toks \cup {r}, b.id) \cap CellsIn(rec, b.id) = {}
       /\ CellsIn(toks \cup {r}, b.id) \cap CellsIn(gn, b.id) = {}
       /\ CellsIn(rec, b.id) \cap CellsIn(gn, b.id) = {}
  <2>1. /\ CellsIn(toks, b.id) \cap CellsIn(rec, b.id) = {}
        /\ CellsIn(toks, b.id) \cap CellsIn(gn, b.id) = {}
        /\ CellsIn(rec, b.id) \cap CellsIn(gn, b.id) = {}
    BY DEF LaneInv
  <2> QED
    BY <1>2, <1>6, <2>1
<1> QED
  BY <1>1, <1>5, <1>8, <1>9, <1>10 DEF LaneInv, d, P

\* A lane that leaves its bucket for good.
LEMMA LaneIntoGone ==
  ASSUME NEW b \in Bucket, NEW toks, NEW rec, NEW gn, LaneInv(b, toks, rec, gn),
         NEW c \in b.idle \cup b.busy, NEW r, r.id = b.id, r.cell = c
  PROVE  LET d == [b EXCEPT !.idle = @ \ {c}, !.busy = @ \ {c}, !.detached = @ + 1]
         IN  d \in Bucket /\ LaneInv(d, toks, rec, gn \cup {r})
<1> DEFINE d == [b EXCEPT !.idle = @ \ {c}, !.busy = @ \ {c}, !.detached = @ + 1]
           O == Out(b.id, toks, rec, gn)
           P == Out(b.id, toks, rec, gn \cup {r})
<1>1. /\ d.idle = b.idle \ {c} /\ d.busy = b.busy \ {c} /\ d.detached = b.detached + 1
      /\ d.id = b.id /\ d \in Bucket
  <2>1. b.idle \in SUBSET Nat /\ b.busy \in SUBSET Nat /\ b.detached \in Nat
    BY DEF Bucket
  <2>2. b.idle \ {c} \in SUBSET Nat /\ b.busy \ {c} \in SUBSET Nat /\ b.detached + 1 \in Nat
    BY <2>1
  <2>3. d \in Bucket
    BY <2>2, BucketWith
  <2> QED
    BY <2>2, <2>3 DEF Bucket
<1>2. CellsIn(gn \cup {r}, b.id) = CellsIn(gn, b.id) \cup {c}
  BY DEF CellsIn
<1>3. P = O \cup {c}
  BY <1>2 DEF Out
<1>4. c \notin O
  BY DEF LaneInv
<1>5. Cardinality(P) = b.detached + 1
  <2>1. IsFiniteSet(O) /\ Cardinality(O) = b.detached
    BY OutIsFinite DEF LaneInv
  <2> HIDE DEF O, P
  <2> QED
    BY <1>3, <1>4, <2>1, FS_AddElement
<1>6. c \notin CellsIn(toks, b.id) /\ c \notin CellsIn(rec, b.id) /\ c \notin CellsIn(gn, b.id)
  BY <1>4 DEF Out
<1> HIDE DEF O, P, d
<1>7. /\ d.idle \cup d.busy \cup P = CellsOf(d.id.slot)
      /\ d.idle \cap d.busy = {}
      /\ (d.idle \cup d.busy) \cap P = {}
  BY <1>1, <1>3 DEF LaneInv, O
<1>8. /\ CellsIn(toks, b.id) \cap CellsIn(rec, b.id) = {}
      /\ CellsIn(toks, b.id) \cap CellsIn(gn \cup {r}, b.id) = {}
      /\ CellsIn(rec, b.id) \cap CellsIn(gn \cup {r}, b.id) = {}
  BY <1>2, <1>6 DEF LaneInv
<1> QED
  BY <1>1, <1>5, <1>7, <1>8 DEF LaneInv, d, P

\* An element that moves from one set of a union to another, or back into its own.
LEMMA Moved ==
  ASSUME NEW X, NEW Y, NEW Z, NEW c \in X
  PROVE  /\ (X \ {c}) \cup {c} = X
         /\ (X \ {c}) \cup (Y \cup {c}) \cup Z = X \cup Y \cup Z
         /\ (X \ {c}) \cup Y \cup (Z \cup {c}) = X \cup Y \cup Z
OBVIOUS

\* What taking away one of its tokens does to the lanes of a bucket.
TokenFacts(b, toks, rec, gn, r) ==
    /\ CellsIn(toks \ {r}, b.id) = CellsIn(toks, b.id) \ {r.cell}
    /\ r.cell \in CellsIn(toks, b.id)
    /\ r.cell \notin CellsIn(rec, b.id) /\ r.cell \notin CellsIn(gn, b.id)
    /\ r.cell \in Nat
    /\ CellsIn(toks, b.id) \cap CellsIn(rec, b.id) = {}
    /\ CellsIn(toks, b.id) \cap CellsIn(gn, b.id) = {}
    /\ CellsIn(rec, b.id) \cap CellsIn(gn, b.id) = {}

LEMMA TokenLeaves ==
  ASSUME NEW b \in Bucket, NEW toks, NEW rec, NEW gn, LaneInv(b, toks, rec, gn),
         NEW r \in toks, r.id = b.id
  PROVE  TokenFacts(b, toks, rec, gn, r)
<1>1. \A q \in toks : q.id = b.id /\ q.cell = r.cell => q = r
  BY DEF LaneInv
<1>2. CellsIn(toks \ {r}, b.id) = CellsIn(toks, b.id) \ {r.cell}
  BY <1>1 DEF CellsIn
<1>3. r.cell \in CellsIn(toks, b.id)
  BY DEF CellsIn
<1>4. r.cell \notin CellsIn(rec, b.id) /\ r.cell \notin CellsIn(gn, b.id)
  BY <1>3 DEF LaneInv
<1>5. r.cell \in Nat
  BY <1>3, OutIsFinite DEF Out
<1>6. /\ CellsIn(toks, b.id) \cap CellsIn(rec, b.id) = {}
      /\ CellsIn(toks, b.id) \cap CellsIn(gn, b.id) = {}
      /\ CellsIn(rec, b.id) \cap CellsIn(gn, b.id) = {}
  BY DEF LaneInv
<1> QED
  BY <1>2, <1>3, <1>4, <1>5, <1>6 DEF TokenFacts

\* A token's lane comes home.
LEMMA TokenIntoIdle ==
  ASSUME NEW b \in Bucket, NEW toks, NEW rec, NEW gn, LaneInv(b, toks, rec, gn),
         NEW r \in toks, r.id = b.id
  PROVE  LET d == [b EXCEPT !.idle = @ \cup {r.cell}, !.detached = @ - 1]
         IN  d \in Bucket /\ LaneInv(d, toks \ {r}, rec, gn)
<1> DEFINE d == [b EXCEPT !.idle = @ \cup {r.cell}, !.detached = @ - 1]
           O == Out(b.id, toks, rec, gn)
           P == Out(b.id, toks \ {r}, rec, gn)
<1>0. TokenFacts(b, toks, rec, gn, r)
  BY TokenLeaves
<1>1. P = O \ {r.cell} /\ r.cell \in O
  BY <1>0 DEF Out, TokenFacts
<1>2. IsFiniteSet(O) /\ Cardinality(O) = b.detached
  BY OutIsFinite DEF LaneInv
<1>3. Cardinality(P) = b.detached - 1 /\ b.detached - 1 \in Nat
  <2> HIDE DEF O, P
  <2>1. Cardinality(P) = b.detached - 1 /\ IsFiniteSet(P)
    BY <1>1, <1>2, FS_RemoveElement
  <2> QED
    BY <2>1, FS_CardinalityType
<1>4. b.idle \in SUBSET Nat /\ b.idle \cup {r.cell} \in SUBSET Nat
  BY <1>0 DEF Bucket, TokenFacts
<1>5. d \in Bucket
  BY <1>3, <1>4 DEF Bucket
<1>6. /\ d.idle = b.idle \cup {r.cell} /\ d.busy = b.busy /\ d.detached = b.detached - 1
      /\ d.id = b.id
  BY DEF Bucket
<1> HIDE DEF d, O, P
<1>7. /\ d.idle \cup d.busy \cup P = CellsOf(d.id.slot)
      /\ d.idle \cap d.busy = {}
      /\ (d.idle \cup d.busy) \cap P = {}
  BY <1>1, <1>6 DEF LaneInv, O
<1>8. \A p, q \in toks \ {r} : p.id = b.id /\ q.id = b.id /\ p.cell = q.cell => p = q
  BY DEF LaneInv
<1>9. /\ CellsIn(toks \ {r}, b.id) \cap CellsIn(rec, b.id) = {}
      /\ CellsIn(toks \ {r}, b.id) \cap CellsIn(gn, b.id) = {}
      /\ CellsIn(rec, b.id) \cap CellsIn(gn, b.id) = {}
  BY <1>0 DEF TokenFacts
<1> QED
  BY <1>3, <1>5, <1>6, <1>7, <1>8, <1>9 DEF LaneInv, d, P

\* A token's lane goes into its recovery cell.
LEMMA TokenIntoRecovered ==
  ASSUME NEW b \in Bucket, NEW toks, NEW rec, NEW gn, LaneInv(b, toks, rec, gn),
         NEW r \in toks, r.id = b.id, NEW q, q.id = b.id, q.cell = r.cell
  PROVE  LaneInv(b, toks \ {r}, rec \cup {q}, gn)
<1>0. TokenFacts(b, toks, rec, gn, r)
  BY TokenLeaves
<1>1. CellsIn(rec \cup {q}, b.id) = CellsIn(rec, b.id) \cup {r.cell}
  BY DEF CellsIn
<1>2. Out(b.id, toks \ {r}, rec \cup {q}, gn) = Out(b.id, toks, rec, gn)
  <2> DEFINE X == CellsIn(toks, b.id)
             Y == CellsIn(rec, b.id)
             Z == CellsIn(gn, b.id)
  <2>1. /\ Out(b.id, toks \ {r}, rec \cup {q}, gn) = (X \ {r.cell}) \cup (Y \cup {r.cell}) \cup Z
        /\ Out(b.id, toks, rec, gn) = X \cup Y \cup Z
    BY <1>0, <1>1 DEF Out, TokenFacts
  <2>2. r.cell \in X
    BY <1>0 DEF TokenFacts
  <2> HIDE DEF X, Y, Z
  <2>3. (X \ {r.cell}) \cup (Y \cup {r.cell}) \cup Z = X \cup Y \cup Z
    BY <2>2, Moved
  <2> QED
    BY <2>1, <2>3
<1>3. \A x, y \in toks \ {r} : x.id = b.id /\ y.id = b.id /\ x.cell = y.cell => x = y
  BY DEF LaneInv
<1>4. /\ CellsIn(toks \ {r}, b.id) \cap CellsIn(rec \cup {q}, b.id) = {}
      /\ CellsIn(toks \ {r}, b.id) \cap CellsIn(gn, b.id) = {}
      /\ CellsIn(rec \cup {q}, b.id) \cap CellsIn(gn, b.id) = {}
  BY <1>0, <1>1 DEF TokenFacts
<1> QED
  BY <1>2, <1>3, <1>4 DEF LaneInv

\* A token's lane leaks.
LEMMA TokenIntoGone ==
  ASSUME NEW b \in Bucket, NEW toks, NEW rec, NEW gn, LaneInv(b, toks, rec, gn),
         NEW r \in toks, r.id = b.id, NEW q, q.id = b.id, q.cell = r.cell
  PROVE  LaneInv(b, toks \ {r}, rec, gn \cup {q})
<1>0. TokenFacts(b, toks, rec, gn, r)
  BY TokenLeaves
<1>1. CellsIn(gn \cup {q}, b.id) = CellsIn(gn, b.id) \cup {r.cell}
  BY DEF CellsIn
<1>2. Out(b.id, toks \ {r}, rec, gn \cup {q}) = Out(b.id, toks, rec, gn)
  <2> DEFINE X == CellsIn(toks, b.id)
             Y == CellsIn(rec, b.id)
             Z == CellsIn(gn, b.id)
  <2>1. /\ Out(b.id, toks \ {r}, rec, gn \cup {q}) = (X \ {r.cell}) \cup Y \cup (Z \cup {r.cell})
        /\ Out(b.id, toks, rec, gn) = X \cup Y \cup Z
    BY <1>0, <1>1 DEF Out, TokenFacts
  <2>2. r.cell \in X
    BY <1>0 DEF TokenFacts
  <2> HIDE DEF X, Y, Z
  <2>3. (X \ {r.cell}) \cup Y \cup (Z \cup {r.cell}) = X \cup Y \cup Z
    BY <2>2, Moved
  <2> QED
    BY <2>1, <2>3
<1>3. \A x, y \in toks \ {r} : x.id = b.id /\ y.id = b.id /\ x.cell = y.cell => x = y
  BY DEF LaneInv
<1>4. /\ CellsIn(toks \ {r}, b.id) \cap CellsIn(rec, b.id) = {}
      /\ CellsIn(toks \ {r}, b.id) \cap CellsIn(gn \cup {q}, b.id) = {}
      /\ CellsIn(rec, b.id) \cap CellsIn(gn \cup {q}, b.id) = {}
  BY <1>0, <1>1 DEF TokenFacts
<1> QED
  BY <1>2, <1>3, <1>4 DEF LaneInv

\* A token's run settles.
LEMMA TokenChanges ==
  ASSUME NEW b \in Bucket, NEW toks, NEW rec, NEW gn, LaneInv(b, toks, rec, gn),
         NEW r \in toks, r.id = b.id, NEW q, q.id = b.id, q.cell = r.cell
  PROVE  LaneInv(b, (toks \ {r}) \cup {q}, rec, gn)
<1> DEFINE T == (toks \ {r}) \cup {q}
<1>0. TokenFacts(b, toks, rec, gn, r)
  BY TokenLeaves
<1>1. CellsIn(T, b.id) = CellsIn(toks \ {r}, b.id) \cup {r.cell}
  BY DEF CellsIn
<1>2. CellsIn(T, b.id) = CellsIn(toks, b.id)
  <2> DEFINE X == CellsIn(toks, b.id)
  <2>1. CellsIn(T, b.id) = (X \ {r.cell}) \cup {r.cell} /\ r.cell \in X
    BY <1>0, <1>1 DEF TokenFacts
  <2> HIDE DEF X, T
  <2>2. (X \ {r.cell}) \cup {r.cell} = X
    BY <2>1
  <2> QED
    BY <2>1, <2>2 DEF X
<1>3. \A x, y \in T : x.id = b.id /\ y.id = b.id /\ x.cell = y.cell => x = y
  <2>1. \A x \in toks : x.id = b.id /\ x.cell = r.cell => x = r
    BY DEF LaneInv
  <2>2. \A x, y \in toks : x.id = b.id /\ y.id = b.id /\ x.cell = y.cell => x = y
    BY DEF LaneInv
  <2> QED
    BY <2>1, <2>2
<1>4. Out(b.id, T, rec, gn) = Out(b.id, toks, rec, gn)
  BY <1>2 DEF Out
<1> HIDE DEF T
<1>5. LaneInv(b, T, rec, gn)
  BY <1>2, <1>3, <1>4 DEF LaneInv
<1> QED
  BY <1>5 DEF T

\* The reclaim: what waits in recovery cells comes home.
LEMMA RecoveredIntoIdle ==
  ASSUME NEW b \in Bucket, NEW toks, NEW rec, NEW gn, LaneInv(b, toks, rec, gn)
  PROVE  LET back == CellsIn(rec, b.id)
             d == [b EXCEPT !.idle = @ \cup back, !.detached = @ - Cardinality(back)]
         IN  d \in Bucket /\ LaneInv(d, toks, {}, gn)
<1> DEFINE back == CellsIn(rec, b.id)
           d == [b EXCEPT !.idle = @ \cup back, !.detached = @ - Cardinality(back)]
           O == Out(b.id, toks, rec, gn)
           P == Out(b.id, toks, {}, gn)
<1>1. CellsIn({}, b.id) = {}
  BY DEF CellsIn
<1>2. P = O \ back /\ back \subseteq O
  BY <1>1 DEF Out, LaneInv
<1>3. IsFiniteSet(O) /\ Cardinality(O) = b.detached /\ O \subseteq Nat
  BY OutIsFinite DEF LaneInv
<1>4. Cardinality(P) = b.detached - Cardinality(back) /\ b.detached - Cardinality(back) \in Nat
  <2> HIDE DEF O, P, back
  <2>1. O \cap back = back
    BY <1>2
  <2>2. IsFiniteSet(P) /\ Cardinality(P) = Cardinality(O) - Cardinality(O \cap back)
    BY <1>2, <1>3, FS_Difference
  <2> QED
    BY <1>3, <2>1, <2>2, FS_CardinalityType
<1>5. b.idle \in SUBSET Nat /\ b.idle \cup back \in SUBSET Nat
  BY <1>2, <1>3 DEF Bucket
<1> HIDE DEF back
<1>6. d \in Bucket
  BY <1>4, <1>5 DEF Bucket
<1>7. /\ d.idle = b.idle \cup back /\ d.busy = b.busy
      /\ d.detached = b.detached - Cardinality(back) /\ d.id = b.id
  BY DEF Bucket
<1> HIDE DEF d, O, P
<1>8. /\ d.idle \cup d.busy \cup P = CellsOf(d.id.slot)
      /\ d.idle \cap d.busy = {}
      /\ (d.idle \cup d.busy) \cap P = {}
  BY <1>2, <1>7 DEF LaneInv, O
<1>9. /\ CellsIn(toks, b.id) \cap CellsIn({}, b.id) = {}
      /\ CellsIn(toks, b.id) \cap CellsIn(gn, b.id) = {}
      /\ CellsIn({}, b.id) \cap CellsIn(gn, b.id) = {}
  BY <1>1 DEF LaneInv
<1>10. \A p, q \in toks : p.id = b.id /\ q.id = b.id /\ p.cell = q.cell => p = q
  BY DEF LaneInv
<1>11. LaneInv(d, toks, {}, gn)
  BY <1>4, <1>7, <1>8, <1>9, <1>10 DEF LaneInv, P
<1> QED
  BY <1>6, <1>11 DEF d, back

\* A lane that changes between idle and in flight at home.
LEMMA LaneTurns ==
  ASSUME NEW b \in Bucket, NEW d, NEW toks, NEW rec, NEW gn, LaneInv(b, toks, rec, gn),
         d.id = b.id, d.detached = b.detached,
         d.idle \cup d.busy = b.idle \cup b.busy, d.idle \cap d.busy = {}
  PROVE  LaneInv(d, toks, rec, gn)
BY DEF LaneInv

(***************************************************************************)
(* Calls that leave the list of buckets as it is                           *)
(***************************************************************************)
SameBuckets(bs, cs) ==
    /\ cs \in Seq(Bucket) /\ Len(cs) = Len(bs)
    /\ \A i \in DOMAIN bs : cs[i].key = bs[i].key /\ cs[i].id = bs[i].id /\ cs[i].graph = bs[i].graph

LEMMA SameTables ==
  ASSUME NEW bs \in Seq(Bucket), NEW cs, SameBuckets(bs, cs), NEW sl, NEW fr
  PROVE  /\ DOMAIN cs = DOMAIN bs
         /\ \A lr : TableType(bs, lr, sl, fr) => TableType(cs, lr, sl, fr)
         /\ TableInv(bs, sl, fr) => TableInv(cs, sl, fr)
         /\ \A ids : IssuedInv(bs, sl, fr, ids) => IssuedInv(cs, sl, fr, ids)
         /\ \A S : HomeInv(bs, S) => HomeInv(cs, S)
         /\ \A toks, gn, g, rel, unf :
               GraphInv(bs, toks, gn, g, rel, unf) => GraphInv(cs, toks, gn, g, rel, unf)
         /\ PlanInv(bs) => PlanInv(cs)
<1>1. /\ DOMAIN cs = DOMAIN bs /\ Len(cs) = Len(bs) /\ cs \in Seq(Bucket)
      /\ \A i \in DOMAIN bs : cs[i].key = bs[i].key /\ cs[i].id = bs[i].id /\ cs[i].graph = bs[i].graph
  BY DEF SameBuckets
<1>2. ASSUME NEW lr, TableType(bs, lr, sl, fr) PROVE TableType(cs, lr, sl, fr)
  BY <1>1, <1>2 DEF TableType
<1>3. ASSUME TableInv(bs, sl, fr) PROVE TableInv(cs, sl, fr)
  BY <1>1, <1>3 DEF TableInv
<1>4. ASSUME NEW ids, IssuedInv(bs, sl, fr, ids) PROVE IssuedInv(cs, sl, fr, ids)
  BY <1>1, <1>4 DEF IssuedInv
<1>5. ASSUME NEW S, HomeInv(bs, S) PROVE HomeInv(cs, S)
  BY <1>1, <1>5 DEF HomeInv
<1>6. ASSUME NEW toks, NEW gn, NEW g, NEW rel, NEW unf, GraphInv(bs, toks, gn, g, rel, unf)
      PROVE  GraphInv(cs, toks, gn, g, rel, unf)
  BY <1>1, <1>6 DEF GraphInv
<1>7. ASSUME PlanInv(bs) PROVE PlanInv(cs)
  BY <1>1, <1>7 DEF PlanInv
<1> QED
  BY <1>1, <1>2, <1>3, <1>4, <1>5, <1>6, <1>7

\* What an id resolves to.
LEMMA IndexIs ==
  ASSUME IInv, NEW id
  PROVE  /\ \A i \in DOMAIN buckets : prepared_bucket_index(id) = i <=> buckets[i].id = id
         /\ prepared_bucket_index(id) = None <=> \A i \in DOMAIN buckets : buckets[i].id # id
         /\ prepared_bucket_index(id) # None => prepared_bucket_index(id) \in DOMAIN buckets
<1>1. DOMAIN buckets \subseteq Nat
  BY DEF IInv, TableType
<1>2. \A i \in DOMAIN buckets : i # None
  BY <1>1, NoneAssumption
<1>3. ASSUME NEW i \in DOMAIN buckets, buckets[i].id = id PROVE prepared_bucket_index(id) = i
  BY <1>3 DEF IInv, TableInv, prepared_bucket_index
<1>4. ASSUME NEW i \in DOMAIN buckets, prepared_bucket_index(id) = i PROVE buckets[i].id = id
  BY <1>2, <1>4 DEF prepared_bucket_index
<1>5. ASSUME prepared_bucket_index(id) # None PROVE prepared_bucket_index(id) \in DOMAIN buckets
  BY <1>5 DEF prepared_bucket_index
<1> QED
  BY <1>2, <1>3, <1>4, <1>5

\* No two buckets have the same id.
LEMMA IdsDiffer ==
  ASSUME NEW bs, NEW sl, NEW fr, TableInv(bs, sl, fr), NEW i \in DOMAIN bs, NEW j \in DOMAIN bs,
         bs[i].id.slot = bs[j].id.slot
  PROVE  i = j
BY DEF TableInv

\* The start of every call: the buckets with the lanes that came home.
LEMMA ReclaimedIs ==
  ASSUME IInv
  PROVE  SameBuckets(buckets, Reclaimed) /\ LanesInv(Reclaimed, tokens, {}, gone)
<1>1. buckets \in Seq(Bucket)
  BY DEF IInv, TableType
<1>2. ASSUME NEW i \in DOMAIN buckets
      PROVE  /\ Reclaimed[i] \in Bucket /\ LaneInv(Reclaimed[i], tokens, {}, gone)
             /\ Reclaimed[i].key = buckets[i].key /\ Reclaimed[i].id = buckets[i].id
             /\ Reclaimed[i].graph = buckets[i].graph
  <2> DEFINE b == buckets[i]
             back == CellsIn(recovered, b.id)
             d == [b EXCEPT !.idle = @ \cup back, !.detached = @ - Cardinality(back)]
  <2>1. b \in Bucket /\ LaneInv(b, tokens, recovered, gone)
    BY <1>1 DEF IInv, LanesInv
  <2>2. d \in Bucket /\ LaneInv(d, tokens, {}, gone)
    BY <2>1, RecoveredIntoIdle
  <2>3. {x \in recovered : prepared_bucket_index(x.id) = i} = {x \in recovered : x.id = b.id}
    BY IndexIs
  <2>4. {r.cell : r \in {x \in recovered : prepared_bucket_index(x.id) = i}} = back
    BY <2>3 DEF CellsIn
  <2>5. Reclaimed[i] = d
    BY <2>4 DEF Reclaimed
  <2>6. d.key = b.key /\ d.id = b.id /\ d.graph = b.graph
    BY <2>1 DEF Bucket
  <2> QED
    BY <2>2, <2>5, <2>6
<1>3. DOMAIN Reclaimed = DOMAIN buckets /\ Reclaimed = [i \in DOMAIN buckets |-> Reclaimed[i]]
  BY DEF Reclaimed
<1>4. Reclaimed \in Seq(Bucket) /\ Len(Reclaimed) = Len(buckets)
  BY <1>1, <1>2, <1>3
<1> QED
  BY <1>2, <1>3, <1>4 DEF SameBuckets, LanesInv

LEMMA OneBucket ==
  ASSUME NEW bs \in Seq(Bucket), NEW i \in DOMAIN bs, NEW d \in Bucket,
         d.key = bs[i].key, d.id = bs[i].id, d.graph = bs[i].graph
  PROVE  LET cs == [bs EXCEPT ![i] = d]
         IN  /\ SameBuckets(bs, cs) /\ cs[i] = d
             /\ \A j \in DOMAIN bs \ {i} : cs[j] = bs[j]
BY DEF SameBuckets

(***************************************************************************)
(* Retiring a bucket: swap_remove and the repair of the indices            *)
(***************************************************************************)
\* cs is bs without its i-th bucket, in some order.
OneLess(bs, cs, i) ==
    /\ \A j \in DOMAIN cs : \E k \in DOMAIN bs \ {i} : cs[j] = bs[k]
    /\ \A k \in DOMAIN bs \ {i} : \E j \in DOMAIN cs : cs[j] = bs[k]

LEMMA SwapRemoveIs ==
  ASSUME NEW bs \in Seq(Bucket), NEW i \in DOMAIN bs
  PROVE  LET cs == SwapRemove(bs, i)
         IN  /\ cs \in Seq(Bucket) /\ Len(cs) = Len(bs) - 1 /\ DOMAIN cs = 1..(Len(bs) - 1)
             /\ \A j \in DOMAIN cs : cs[j] = IF j = i THEN bs[Len(bs)] ELSE bs[j]
             /\ OneLess(bs, cs, i)
<1> DEFINE cs == SwapRemove(bs, i)
           n == Len(bs)
<1>1. n \in Nat /\ DOMAIN bs = 1..n /\ i \in 1..n /\ n \in 1..n
  OBVIOUS
<1>2. DOMAIN cs = 1..(n - 1) /\ \A j \in DOMAIN cs : cs[j] = IF j = i THEN bs[n] ELSE bs[j]
  BY DEF SwapRemove
<1>3. \A j \in 1..(n - 1) : cs[j] \in Bucket
  BY <1>1, <1>2
<1>4. cs \in Seq(Bucket) /\ Len(cs) = n - 1
  BY <1>1, <1>3 DEF SwapRemove
<1>5. \A j \in DOMAIN cs : \E k \in DOMAIN bs \ {i} : cs[j] = bs[k]
  BY <1>1, <1>2
<1>6. ASSUME NEW k \in DOMAIN bs \ {i} PROVE \E j \in DOMAIN cs : cs[j] = bs[k]
  <2>1. CASE k = n
    <3>1. i \in DOMAIN cs /\ cs[i] = bs[k]
      BY <1>1, <1>2, <2>1
    <3> QED
      BY <3>1
  <2>2. CASE k # n
    <3>1. k \in DOMAIN cs /\ cs[k] = bs[k]
      BY <1>1, <1>2, <2>2
    <3> QED
      BY <3>1
  <2> QED
    BY <2>1, <2>2
<1> QED
  BY <1>2, <1>4, <1>5, <1>6 DEF OneLess

\* sl2 is the slot table sl without a slot, for the buckets cs.
Repaired(sl, slot, cs, sl2) ==
    /\ DOMAIN sl2 = DOMAIN sl /\ sl2 \in Seq(Slot) /\ Len(sl2) = Len(sl)
    /\ sl2[slot].index = None
    /\ sl2[slot].generation = IF sl[slot].generation < MaxGeneration
                              THEN sl[slot].generation + 1 ELSE sl[slot].generation
    /\ \A s \in DOMAIN sl \ {slot} : sl2[s].generation = sl[s].generation
    /\ \A s \in DOMAIN sl : sl[s].index = None => sl2[s].index = None
    /\ \A j \in DOMAIN cs : sl2[cs[j].id.slot].index = j
    /\ \A s \in DOMAIN sl :
          sl2[s].index # None => sl2[s].index \in DOMAIN cs /\ cs[sl2[s].index].id.slot = s

\* The slot table after the repair: the retired slot is empty, and every remaining
\* bucket is found where it is now.
LEMMA RepairedSlots ==
  ASSUME NEW bs, NEW sl \in Seq(Slot), NEW fr, bs \in Seq(Bucket), TableInv(bs, sl, fr),
         NEW i \in DOMAIN bs
  PROVE  LET cs == SwapRemove(bs, i)
             slot == bs[i].id.slot
             sl2 == repair_prepared_bucket_indices_from(RetireSlot(sl, slot), cs, i)
         IN  Repaired(sl, slot, cs, sl2)
<1> DEFINE n == Len(bs)
           cs == SwapRemove(bs, i)
           slot == bs[i].id.slot
           sl1 == RetireSlot(sl, slot)
           sl2 == repair_prepared_bucket_indices_from(sl1, cs, i)
           Match(m, s) == cs[m].id = [slot |-> s, generation |-> sl1[s].generation]
<1>1. n \in Nat /\ DOMAIN bs = 1..n /\ i \in 1..n /\ \A j \in 1..n : bs[j] \in Bucket
  OBVIOUS
<1>2. /\ Len(cs) = n - 1 /\ DOMAIN cs = 1..(n - 1)
      /\ \A j \in DOMAIN cs : cs[j] = IF j = i THEN bs[n] ELSE bs[j]
  BY SwapRemoveIs
<1>3. /\ \A j \in 1..n : /\ bs[j].id.slot \in DOMAIN sl
                         /\ sl[bs[j].id.slot].generation = bs[j].id.generation
                         /\ sl[bs[j].id.slot].index = j
      /\ \A s \in DOMAIN sl :
            sl[s].index # None => sl[s].index \in 1..n /\ bs[sl[s].index].id.slot = s
  BY <1>1 DEF TableInv
<1>4. slot \in DOMAIN sl
  BY <1>1, <1>3
<1>5. /\ DOMAIN sl1 = DOMAIN sl /\ sl1[slot].index = None
      /\ sl1[slot].generation = IF sl[slot].generation < MaxGeneration
                                THEN sl[slot].generation + 1 ELSE sl[slot].generation
      /\ \A s \in DOMAIN sl \ {slot} : sl1[s] = sl[s]
  BY <1>4 DEF RetireSlot
<1>6. sl1 \in Seq(Slot) /\ Len(sl1) = Len(sl)
  <2>0. \A s \in DOMAIN sl : sl[s] \in Slot
    OBVIOUS
  <2>1. \A s \in DOMAIN sl : sl[s].generation \in 1..MaxGeneration
    BY <2>0 DEF Slot
  <2>2. sl1[slot].generation \in 1..MaxGeneration
    BY <1>4, <1>5, <2>1, BoundsAssumption
  <2>3. [generation |-> IF sl[slot].generation < MaxGeneration
                       THEN sl[slot].generation + 1 ELSE sl[slot].generation,
         index |-> None] \in Slot
    BY <1>4, <1>5, <2>2 DEF Slot
  <2> QED
    BY <1>4, <2>3 DEF RetireSlot
<1>7. DOMAIN sl2 = DOMAIN sl
  BY <1>5 DEF repair_prepared_bucket_indices_from
<1> HIDE DEF sl1, cs
\* a match is the bucket of the slot
<1>8. \A s \in DOMAIN sl, m \in i..(n - 1) : Match(m, s) => cs[m].id.slot = s
  OBVIOUS
<1>9. \A m \in DOMAIN cs : /\ cs[m].id.slot \in DOMAIN sl /\ cs[m].id.slot # slot
                           /\ cs[m].id = [slot |-> cs[m].id.slot,
                                          generation |-> sl1[cs[m].id.slot].generation]
  <2> TAKE m \in DOMAIN cs
  <2>1. PICK k \in 1..n : cs[m] = bs[k] /\ k # i
    BY <1>1, <1>2
  <2>2. bs[k].id.slot \in DOMAIN sl /\ bs[k].id.slot # slot
    BY <1>1, <1>3, <2>1
  <2>3. sl1[bs[k].id.slot].generation = bs[k].id.generation
    BY <1>3, <1>5, <2>2
  <2>4. bs[k].id = [slot |-> bs[k].id.slot, generation |-> bs[k].id.generation]
    BY <1>1 DEF Bucket, Ids
  <2> QED
    BY <2>1, <2>2, <2>3, <2>4
<1>10. \A m, k \in DOMAIN cs : cs[m].id.slot = cs[k].id.slot => m = k
  <2> TAKE m \in DOMAIN cs, k \in DOMAIN cs
  <2> HAVE cs[m].id.slot = cs[k].id.slot
  <2> DEFINE a == IF m = i THEN n ELSE m
             b == IF k = i THEN n ELSE k
  <2>1. a \in 1..n /\ b \in 1..n /\ (a = b => m = k)
    BY <1>1, <1>2
  <2>2. cs[m] = bs[a] /\ cs[k] = bs[b]
    BY <1>2
  <2> HIDE DEF a, b
  <2>3. a = b
    BY <1>3, <2>1, <2>2
  <2> QED
    BY <2>1, <2>3
<1>11. ASSUME NEW s \in DOMAIN sl, NEW m \in i..(n - 1), cs[m].id.slot = s
       PROVE  sl2[s] = [sl1[s] EXCEPT !.index = m]
  <2>0. \A k \in i..(n - 1) : k \in DOMAIN cs
    BY <1>1, <1>2
  <2>1. m \in DOMAIN cs /\ Match(m, s)
    <3>1. m \in DOMAIN cs
      BY <2>0
    <3> QED
      BY <1>9, <1>11, <3>1
  <2>2. ASSUME NEW k \in i..(n - 1), Match(k, s) PROVE k = m
    <3>1. k \in DOMAIN cs /\ cs[k].id.slot = s
      BY <1>8, <2>0, <2>2
    <3> HIDE DEF Match
    <3> QED
      BY <1>10, <1>11, <2>1, <3>1
  <2>3. m = CHOOSE k \in i..(n - 1) : Match(k, s)
    BY <2>1, <2>2
  <2> QED
    BY <1>2, <1>5, <2>1, <2>3 DEF repair_prepared_bucket_indices_from
<1>12. ASSUME NEW s \in DOMAIN sl, \A m \in i..(n - 1) : cs[m].id.slot # s
       PROVE  sl2[s] = sl1[s]
  BY <1>2, <1>5, <1>8, <1>12 DEF repair_prepared_bucket_indices_from
<1> HIDE DEF sl2, Match
<1>13. \A s \in DOMAIN sl : sl2[s].generation = sl1[s].generation /\ sl2[s] \in Slot
  <2> TAKE s \in DOMAIN sl
  <2>1. sl1[s] \in Slot
    BY <1>5, <1>6
  <2>2. CASE \E m \in i..(n - 1) : cs[m].id.slot = s
    <3>1. PICK m \in i..(n - 1) : cs[m].id.slot = s
      BY <2>2
    <3>2. m \in Nat
      BY <1>1
    <3>3. sl2[s] = [sl1[s] EXCEPT !.index = m]
      BY <1>11, <3>1
    <3> QED
      BY <2>1, <3>2, <3>3 DEF Slot
  <2> QED
    BY <1>12, <2>1, <2>2
<1>14. sl2 \in Seq(Slot) /\ Len(sl2) = Len(sl)
  <2>1. sl2 = [s \in 1..Len(sl) |-> sl2[s]]
    BY <1>5 DEF sl2, repair_prepared_bucket_indices_from
  <2>2. Len(sl) \in Nat /\ \A s \in 1..Len(sl) : sl2[s] \in Slot
    BY <1>13
  <2> QED
    BY <2>1, <2>2
<1>15. sl2[slot] = sl1[slot]
  <2>1. \A m \in i..(n - 1) : m \in DOMAIN cs
    BY <1>1, <1>2
  <2>2. \A m \in i..(n - 1) : cs[m].id.slot # slot
    BY <1>9, <2>1
  <2> QED
    BY <1>4, <1>12, <2>2
<1>16. \A s \in DOMAIN sl : sl[s].index = None => sl2[s].index = None
  <2> SUFFICES ASSUME NEW s \in DOMAIN sl, sl[s].index = None PROVE sl2[s].index = None
    OBVIOUS
  <2>1. \A m \in DOMAIN cs : cs[m].id.slot # s
    <3>1. \A k \in 1..n : bs[k].id.slot # s
      BY <1>1, <1>3, NoneAssumption
    <3> QED
      BY <1>1, <1>2, <3>1
  <2>2. \A m \in i..(n - 1) : m \in DOMAIN cs
    BY <1>1, <1>2
  <2>3. sl2[s] = sl1[s]
    BY <1>12, <2>1, <2>2
  <2> QED
    BY <1>5, <2>3
<1>17. \A j \in DOMAIN cs : sl2[cs[j].id.slot].index = j
  <2> TAKE j \in DOMAIN cs
  <2> DEFINE s == cs[j].id.slot
  <2>1. s \in DOMAIN sl /\ s # slot /\ sl1[s] = sl[s]
    BY <1>5, <1>9
  <2>2. CASE j >= i
    <3>1. j \in i..(n - 1)
      BY <1>1, <1>2, <2>2
    <3>2. sl2[s] = [sl1[s] EXCEPT !.index = j] /\ sl1[s] \in Slot
      BY <1>5, <1>6, <1>11, <2>1, <3>1
    <3> QED
      BY <3>2 DEF Slot
  <2>3. CASE j < i
    <3>0. cs[j] = bs[j] /\ j \in 1..n
      BY <1>1, <1>2, <2>3
    <3>1. sl[s].index = j
      BY <1>3, <3>0
    <3>2. \A m \in i..(n - 1) : cs[m].id.slot # s
      BY <1>1, <1>2, <1>10, <2>3
    <3>3. sl2[s] = sl1[s]
      BY <1>12, <2>1, <3>2
    <3> QED
      BY <2>1, <3>1, <3>3
  <2> QED
    BY <1>1, <1>2, <2>2, <2>3
<1>18. \A s \in DOMAIN sl : sl2[s].index # None =>
          sl2[s].index \in DOMAIN cs /\ cs[sl2[s].index].id.slot = s
  <2> SUFFICES ASSUME NEW s \in DOMAIN sl, sl2[s].index # None
               PROVE  sl2[s].index \in DOMAIN cs /\ cs[sl2[s].index].id.slot = s
    OBVIOUS
  <2>1. CASE \E m \in DOMAIN cs : cs[m].id.slot = s
    BY <1>17, <2>1
  <2>2. CASE \A m \in DOMAIN cs : cs[m].id.slot # s
    <3>0. \A m \in i..(n - 1) : m \in DOMAIN cs
      BY <1>1, <1>2
    <3>1. sl2[s] = sl1[s]
      BY <1>12, <2>2, <3>0
    <3>2. s # slot /\ sl[s].index # None
      BY <1>5, <3>1
    <3>3. PICK k \in 1..n : bs[k].id.slot = s /\ k # i
      BY <1>1, <1>3, <3>2
    <3> QED
      BY <1>1, <1>2, <2>2, <3>3
  <2> QED
    BY <2>1, <2>2
<1> QED
  <2>1. Repaired(sl, slot, cs, sl2)
    BY <1>5, <1>7, <1>13, <1>14, <1>15, <1>16, <1>17, <1>18 DEF Repaired
  <2> QED
    BY <2>1 DEF sl1, sl2, cs

\* Taking a key out of the order of use, where it occurs, keeps the others.
LEMMA WithoutKeeps ==
  ASSUME NEW lr \in Seq(Keys), NEW k, Occurs(k, lr)
  PROVE  /\ Without(lr, k) \in Seq(Keys)
         /\ \A x : x # k /\ Occurs(x, lr) => Occurs(x, Without(lr, k))
<1> DEFINE N == Len(lr)
           p == CHOOSE n \in DOMAIN lr : lr[n] = k
           W == [n \in 1..(N - 1) |-> IF n < p THEN lr[n] ELSE lr[n + 1]]
<1>1. N \in Nat /\ DOMAIN lr = 1..N /\ \A n \in 1..N : lr[n] \in Keys
  OBVIOUS
<1>2. p \in 1..N /\ lr[p] = k
  BY <1>1 DEF Occurs
<1> HIDE DEF p
<1>3. Without(lr, k) = W
  BY DEF Without, p
<1>4. \A n \in 1..(N - 1) : W[n] \in Keys
  BY <1>1, <1>2
<1>5. W \in Seq(Keys) /\ DOMAIN W = 1..(N - 1)
  BY <1>1, <1>4
<1>6. ASSUME NEW x, x # k, NEW n \in 1..N, lr[n] = x PROVE \E m \in 1..(N - 1) : W[m] = x
  <2>1. CASE n < p
    <3>1. n \in 1..(N - 1) /\ W[n] = x
      BY <1>1, <1>2, <1>6, <2>1
    <3> QED
      BY <3>1
  <2>2. CASE n > p
    <3>1. n - 1 \in 1..(N - 1) /\ W[n - 1] = x
      BY <1>1, <1>2, <1>6, <2>2
    <3> QED
      BY <3>1
  <2> QED
    BY <1>2, <1>6, <2>1, <2>2
<1> QED
  BY <1>1, <1>3, <1>5, <1>6 DEF Occurs

\* A use of a cached shape makes it the newest.
LEMMA Touched ==
  ASSUME NEW lr \in Seq(Keys), NEW k \in Keys, Occurs(k, lr)
  PROVE  /\ Append(Without(lr, k), k) \in Seq(Keys)
         /\ \A x : Occurs(x, lr) => Occurs(x, Append(Without(lr, k), k))
<1> DEFINE W == Without(lr, k)
<1>1. /\ W \in Seq(Keys)
      /\ \A x : x # k /\ Occurs(x, lr) => Occurs(x, W)
  BY WithoutKeeps
<1> HIDE DEF W
<1>2. /\ Append(W, k) \in Seq(Keys) /\ DOMAIN W = 1..Len(W) /\ Len(W) \in Nat
      /\ DOMAIN Append(W, k) = 1..(Len(W) + 1)
      /\ \A n \in DOMAIN W : Append(W, k)[n] = W[n]
      /\ Append(W, k)[Len(W) + 1] = k
  BY <1>1
<1>3. ASSUME NEW x, Occurs(x, lr) PROVE Occurs(x, Append(W, k))
  <2>1. CASE x = k
    BY <1>2, <2>1 DEF Occurs
  <2>2. CASE Occurs(x, W)
    BY <1>2, <2>2 DEF Occurs
  <2> QED
    BY <1>1, <1>3, <2>1, <2>2
<1> QED
  BY <1>2, <1>3 DEF W

LEMMA AppendIs ==
  ASSUME NEW T, NEW q \in Seq(T), NEW x \in T
  PROVE  /\ Append(q, x) \in Seq(T) /\ DOMAIN q = 1..Len(q) /\ Len(q) \in Nat
         /\ Len(Append(q, x)) = Len(q) + 1
         /\ DOMAIN Append(q, x) = 1..(Len(q) + 1)
         /\ \A n \in DOMAIN q : Append(q, x)[n] = q[n]
         /\ Append(q, x)[Len(q) + 1] = x
OBVIOUS

\* The tables that retiring bucket i leaves.
LEMMA RetiredTables ==
  ASSUME NEW bs, NEW i \in DOMAIN bs,
         TableType(bs, lru, prepared_slots, free_prepared_slots),
         TableInv(bs, prepared_slots, free_prepared_slots),
         IssuedInv(bs, prepared_slots, free_prepared_slots, issued)
  PROVE  LET t == Retired(Tables(bs), i)
         IN  /\ TableType(t.buckets, t.lru, t.slots, t.free)
             /\ TableInv(t.buckets, t.slots, t.free)
             /\ IssuedInv(t.buckets, t.slots, t.free, issued)
             /\ Len(t.buckets) = Len(bs) - 1
             /\ OneLess(bs, t.buckets, i)
<1> DEFINE sl == prepared_slots
           fr == free_prepared_slots
           slot == bs[i].id.slot
           cs == SwapRemove(bs, i)
           sl2 == repair_prepared_bucket_indices_from(RetireSlot(sl, slot), cs, i)
           lr2 == Without(lru, bs[i].key)
           fr2 == IF Recycled(slot) THEN Append(fr, slot) ELSE fr
           t == Retired(Tables(bs), i)
<1>1. t.buckets = cs /\ t.slots = sl2 /\ t.lru = lr2 /\ t.free = fr2
  BY DEF Retired, Tables
<1>2. /\ bs \in Seq(Bucket) /\ Len(bs) <= MaxBuckets /\ lru \in Seq(Keys)
      /\ sl \in Seq(Slot) /\ Len(sl) <= MaxSlots /\ fr \in Seq(1..MaxSlots)
      /\ \A j \in DOMAIN bs : Occurs(bs[j].key, lru)
  BY DEF TableType
<1>3. /\ cs \in Seq(Bucket) /\ Len(cs) = Len(bs) - 1 /\ DOMAIN cs = 1..(Len(bs) - 1)
      /\ OneLess(bs, cs, i)
  BY <1>2, SwapRemoveIs
<1>4. Repaired(sl, slot, cs, sl2)
  BY <1>2, RepairedSlots
<1>5. /\ \A j \in DOMAIN bs : /\ bs[j].id.slot \in DOMAIN sl
                              /\ sl[bs[j].id.slot].generation = bs[j].id.generation
                              /\ sl[bs[j].id.slot].index = j
      /\ \A j, k \in DOMAIN bs : bs[j].key = bs[k].key => j = k
      /\ \A n \in DOMAIN fr : fr[n] \in DOMAIN sl /\ sl[fr[n]].index = None
      /\ \A m, n \in DOMAIN fr : fr[m] = fr[n] => m = n
  BY DEF TableInv
<1>6. /\ \A j \in DOMAIN cs : \E k \in DOMAIN bs \ {i} : cs[j] = bs[k]
      /\ \A k \in DOMAIN bs \ {i} : \E j \in DOMAIN cs : cs[j] = bs[k]
  BY <1>3 DEF OneLess
<1> HIDE DEF cs, sl2, lr2
<1>7. slot \in DOMAIN sl /\ slot \in 1..MaxSlots /\ slot # None
  BY <1>2, <1>5, NoneAssumption, BoundsAssumption
<1>8. \A n \in DOMAIN fr : fr[n] # slot
  <2>1. sl[slot].index = i /\ i # None
    BY <1>2, <1>5, NoneAssumption
  <2> QED
    BY <1>5, <2>1
<1>9. /\ lr2 \in Seq(Keys)
      /\ \A j \in DOMAIN cs : Occurs(cs[j].key, lr2)
  <2>1. /\ lr2 \in Seq(Keys)
        /\ \A x : x # bs[i].key /\ Occurs(x, lru) => Occurs(x, lr2)
    BY <1>2, WithoutKeeps DEF lr2
  <2>2. ASSUME NEW j \in DOMAIN cs PROVE Occurs(cs[j].key, lr2)
    <3>1. PICK k \in DOMAIN bs \ {i} : cs[j] = bs[k]
      BY <1>6
    <3>2. bs[k].key # bs[i].key
      BY <1>5, <3>1
    <3> QED
      BY <1>2, <2>1, <3>1, <3>2
  <2> QED
    BY <2>1, <2>2
<1>10. /\ fr2 \in Seq(1..MaxSlots)
       /\ \A n \in DOMAIN fr2 :
             \/ \E m \in DOMAIN fr : fr2[n] = fr[m]
             \/ fr2[n] = slot /\ sl[slot].generation < MaxGeneration
       /\ \A m, n \in DOMAIN fr2 : fr2[m] = fr2[n] => m = n
  <2>1. CASE Recycled(slot)
    <3>1. fr2 = Append(fr, slot) /\ sl[slot].generation < MaxGeneration
      BY <2>1 DEF Recycled
    <3> HIDE DEF fr2, slot
    <3>2. /\ fr2 \in Seq(1..MaxSlots) /\ DOMAIN fr2 = 1..(Len(fr) + 1) /\ DOMAIN fr = 1..Len(fr)
          /\ Len(fr) \in Nat /\ fr2[Len(fr) + 1] = slot /\ \A n \in DOMAIN fr : fr2[n] = fr[n]
      BY <1>2, <1>7, <3>1, AppendIs
    <3> QED
      BY <1>5, <1>8, <3>1, <3>2
  <2>2. CASE ~Recycled(slot)
    BY <1>2, <1>5, <2>2
  <2> QED
    BY <2>1, <2>2
<1> HIDE DEF fr2
<1>11. TableType(cs, lr2, sl2, fr2)
  <2>1. Len(cs) <= MaxBuckets
    BY <1>2, <1>3, BoundsAssumption
  <2>2. sl2 \in Seq(Slot) /\ Len(sl2) <= MaxSlots
    BY <1>2, <1>4 DEF Repaired
  <2> QED
    BY <1>3, <1>9, <1>10, <2>1, <2>2 DEF TableType
<1>12. \A j \in DOMAIN cs : cs[j].id.slot \in DOMAIN sl /\ cs[j].id.slot # slot
                            /\ sl[cs[j].id.slot].generation = cs[j].id.generation
  <2> TAKE j \in DOMAIN cs
  <2>1. PICK k \in DOMAIN bs \ {i} : cs[j] = bs[k]
    BY <1>6
  <2> QED
    BY <1>5, <2>1
<1>13. \A j, k \in DOMAIN cs : cs[j].key = cs[k].key => j = k
  <2> SUFFICES ASSUME NEW j \in DOMAIN cs, NEW k \in DOMAIN cs, cs[j].key = cs[k].key PROVE j = k
    OBVIOUS
  <2>1. PICK x \in DOMAIN bs \ {i} : cs[j] = bs[x]
    BY <1>6
  <2>2. PICK y \in DOMAIN bs \ {i} : cs[k] = bs[y]
    BY <1>6
  <2>3. x = y
    BY <1>5, <2>1, <2>2
  <2> QED
    BY <1>4, <2>1, <2>2, <2>3 DEF Repaired
<1>14. \A n \in DOMAIN fr2 : fr2[n] \in DOMAIN sl /\ sl2[fr2[n]].index = None
  BY <1>4, <1>5, <1>7, <1>10 DEF Repaired
<1>15. TableInv(cs, sl2, fr2)
  BY <1>4, <1>10, <1>12, <1>13, <1>14 DEF TableInv, Repaired
<1>16. IssuedInv(cs, sl2, fr2, issued)
  <2>1. /\ issued \subseteq Ids
        /\ \A j \in DOMAIN bs : bs[j].id \in issued
        /\ \A id \in issued : id.slot \in DOMAIN sl /\ id.generation <= sl[id.slot].generation
        /\ \A id \in issued, n \in DOMAIN fr : fr[n] = id.slot => id.generation < sl[id.slot].generation
    BY DEF IssuedInv
  <2>2. \A j \in DOMAIN cs : cs[j].id \in issued
    BY <1>6, <2>1
  <2>3. \A s \in DOMAIN sl : sl[s].generation \in Nat
    <3>1. \A s \in DOMAIN sl : sl[s] \in Slot
      BY <1>2
    <3> QED
      BY <3>1, BoundsAssumption DEF Slot
  <2>4. \A id \in issued : id.generation \in Nat
    BY <2>1, BoundsAssumption DEF Ids
  <2>5. ASSUME NEW id \in issued
        PROVE  id.slot \in DOMAIN sl2 /\ id.generation <= sl2[id.slot].generation
    BY <1>4, <2>1, <2>3, <2>4 DEF Repaired
  <2>6. ASSUME NEW id \in issued, NEW n \in DOMAIN fr2, fr2[n] = id.slot
        PROVE  id.generation < sl2[id.slot].generation
    <3>1. CASE fr2[n] = slot /\ sl[slot].generation < MaxGeneration
      <4>1. id.slot = slot /\ id.generation <= sl[slot].generation
        BY <2>1, <2>6, <3>1
      <4>2. sl2[slot].generation = sl[slot].generation + 1
        BY <1>4, <3>1 DEF Repaired
      <4> QED
        BY <1>7, <2>3, <2>4, <4>1, <4>2
    <3>2. CASE \E m \in DOMAIN fr : fr2[n] = fr[m]
      BY <1>4, <1>8, <2>1, <2>6, <3>2 DEF Repaired
    <3> QED
      BY <1>10, <3>1, <3>2
  <2> QED
    BY <2>1, <2>2, <2>5, <2>6 DEF IssuedInv
<1> HIDE DEF t
<1> QED
  BY <1>1, <1>3, <1>11, <1>15, <1>16 DEF t

(***************************************************************************)
(* Creating a bucket                                                       *)
(***************************************************************************)
\* What allocate_prepared_bucket_id answers: an id that was never issued, and a slot
\* that leads to the next place among the buckets.
AllocatedTo(bs, sl, fr, id, sl2, fr2) ==
    /\ id \in Ids /\ id \notin issued
    /\ sl2 \in Seq(Slot) /\ Len(sl2) <= MaxSlots
    /\ DOMAIN sl \subseteq DOMAIN sl2 /\ DOMAIN sl2 \subseteq DOMAIN sl \cup {id.slot}
    /\ id.slot \in DOMAIN sl2
    /\ sl2[id.slot].generation = id.generation /\ sl2[id.slot].index = Len(bs) + 1
    /\ \A s \in DOMAIN sl \ {id.slot} : sl2[s] = sl[s]
    /\ id.slot \in DOMAIN sl => sl[id.slot].index = None /\ sl[id.slot].generation = id.generation
    /\ fr2 \in Seq(1..MaxSlots)
    /\ \A n \in DOMAIN fr2 : n \in DOMAIN fr /\ fr2[n] = fr[n] /\ fr2[n] # id.slot

LEMMA FrontIs ==
  ASSUME NEW T, NEW q \in Seq(T), q # <<>>
  PROVE  /\ Len(q) \in DOMAIN q /\ Len(q) \in Nat /\ DOMAIN q = 1..Len(q) /\ q[Len(q)] \in T
         /\ SubSeq(q, 1, Len(q) - 1) \in Seq(T) /\ DOMAIN SubSeq(q, 1, Len(q) - 1) = 1..(Len(q) - 1)
         /\ \A m \in 1..(Len(q) - 1) : SubSeq(q, 1, Len(q) - 1)[m] = q[m]
OBVIOUS

LEMMA AllocatedIs ==
  ASSUME NEW t, TableType(t.buckets, t.lru, t.slots, t.free),
         TableInv(t.buckets, t.slots, t.free),
         IssuedInv(t.buckets, t.slots, t.free, issued),
         CanAllocate(t)
  PROVE  AllocatedTo(t.buckets, t.slots, t.free, Allocated(t).id, Allocated(t).slots, Allocated(t).free)
<1> DEFINE bs == t.buckets
           sl == t.slots
           fr == t.free
           a == Allocated(t)
<1>1. /\ bs \in Seq(Bucket) /\ sl \in Seq(Slot) /\ Len(sl) <= MaxSlots /\ fr \in Seq(1..MaxSlots)
  BY DEF TableType
<1>2. /\ \A n \in DOMAIN fr : fr[n] \in DOMAIN sl /\ sl[fr[n]].index = None
      /\ \A m, n \in DOMAIN fr : fr[m] = fr[n] => m = n
  BY DEF TableInv
<1>3. /\ \A id \in issued : id.slot \in DOMAIN sl /\ id.generation <= sl[id.slot].generation
      /\ \A id \in issued, n \in DOMAIN fr : fr[n] = id.slot => id.generation < sl[id.slot].generation
      /\ issued \subseteq Ids
  BY DEF IssuedInv
<1>4. Len(bs) + 1 \in Nat
  BY <1>1
<1>5. CASE fr # <<>>
  <2> DEFINE n == Len(fr)
             s == fr[n]
             sl2 == [sl EXCEPT ![s].index = Len(bs) + 1]
             fr2 == SubSeq(fr, 1, n - 1)
             id == [slot |-> s, generation |-> sl[s].generation]
  <2>1. a.id = id /\ a.slots = sl2 /\ a.free = fr2
    BY <1>5 DEF Allocated
  <2>2. n \in DOMAIN fr /\ n \in Nat /\ DOMAIN fr = 1..n /\ s \in DOMAIN sl /\ s \in 1..MaxSlots
    BY <1>1, <1>2, <1>5, FrontIs
  <2>3. sl[s] \in Slot /\ sl[s].generation \in 1..MaxGeneration
    <3> HIDE DEF s
    <3>1. sl[s] \in Slot
      BY <1>1, <2>2
    <3> QED
      BY <3>1 DEF Slot
  <2>4. id \in Ids
    BY <2>2, <2>3 DEF Ids
  <2>5. id \notin issued
    <3> SUFFICES ASSUME id \in issued PROVE FALSE
      OBVIOUS
    <3>1. id.slot = s /\ id.generation = sl[s].generation
      OBVIOUS
    <3> HIDE DEF id, s
    <3>2. fr[n] = id.slot
      BY <3>1 DEF s
    <3>3. id.generation < sl[id.slot].generation
      BY <1>3, <2>2, <3>2
    <3> QED
      BY <2>3, <3>1, <3>3, BoundsAssumption
  <2>6. /\ DOMAIN sl2 = DOMAIN sl /\ Len(sl2) = Len(sl) /\ sl2 \in Seq(Slot)
    <3> HIDE DEF s
    <3>1. [sl[s] EXCEPT !.index = Len(bs) + 1] \in Slot
      BY <1>4, <2>3 DEF Slot
    <3> QED
      BY <1>1, <2>2, <3>1
  <2>7. /\ sl2[s].generation = sl[s].generation /\ sl2[s].index = Len(bs) + 1
        /\ \A x \in DOMAIN sl \ {s} : sl2[x] = sl[x]
    <3> HIDE DEF s
    <3> QED
      BY <2>2, <2>3 DEF Slot
  <2>8. fr2 \in Seq(1..MaxSlots) /\ DOMAIN fr2 = 1..(n - 1) /\ \A m \in 1..(n - 1) : fr2[m] = fr[m]
    BY <1>1, <1>5, FrontIs
  <2>9. \A m \in DOMAIN fr2 : m \in DOMAIN fr /\ fr2[m] = fr[m] /\ fr2[m] # s
    <3> TAKE m \in DOMAIN fr2
    <3>1. m \in 1..(n - 1) /\ m \in DOMAIN fr /\ m # n /\ fr2[m] = fr[m]
      BY <2>2, <2>8
    <3> QED
      BY <1>2, <2>2, <3>1
  <2>10. id.slot = s /\ id.generation = sl[s].generation /\ sl[s].index = None
    BY <1>2, <2>2
  <2> HIDE DEF id, sl2, fr2, s
  <2>11. AllocatedTo(bs, sl, fr, id, sl2, fr2)
    BY <1>1, <2>2, <2>4, <2>5, <2>6, <2>7, <2>8, <2>9, <2>10 DEF AllocatedTo
  <2> QED
    BY <2>1, <2>11
<1>6. CASE fr = <<>>
  <2> DEFINE s == Len(sl) + 1
             sl2 == Append(sl, [generation |-> 1, index |-> Len(bs) + 1])
             id == [slot |-> s, generation |-> 1]
  <2>1. a.id = id /\ a.slots = sl2 /\ a.free = fr
    BY <1>6 DEF Allocated
  <2>2. Len(sl) < MaxSlots /\ Len(sl) \in Nat /\ DOMAIN sl = 1..Len(sl)
    BY <1>1, <1>6 DEF CanAllocate
  <2>3. id \in Ids /\ id.slot = s /\ id.generation = 1
    BY <2>2, BoundsAssumption DEF Ids
  <2>4. id \notin issued
    BY <1>3, <2>2, <2>3
  <2>5. [generation |-> 1, index |-> Len(bs) + 1] \in Slot
    BY <1>4, BoundsAssumption DEF Slot
  <2>6. /\ sl2 \in Seq(Slot) /\ Len(sl2) = Len(sl) + 1 /\ DOMAIN sl2 = 1..(Len(sl) + 1)
        /\ \A x \in DOMAIN sl : sl2[x] = sl[x]
        /\ sl2[s] = [generation |-> 1, index |-> Len(bs) + 1]
    BY <1>1, <2>5, AppendIs
  <2>7. sl2[s].generation = 1 /\ sl2[s].index = Len(bs) + 1
    BY <2>6
  <2>8. Len(sl2) <= MaxSlots
    BY <2>2, <2>6, BoundsAssumption
  <2>9. DOMAIN fr = {}
    BY <1>6
  <2>10. s \notin DOMAIN sl /\ s \in DOMAIN sl2 /\ DOMAIN sl \subseteq DOMAIN sl2
         /\ DOMAIN sl2 \subseteq DOMAIN sl \cup {s}
    BY <2>2, <2>6
  <2> HIDE DEF id, sl2, s
  <2>11. AllocatedTo(bs, sl, fr, id, sl2, fr)
    BY <1>1, <2>3, <2>4, <2>6, <2>7, <2>8, <2>9, <2>10 DEF AllocatedTo
  <2> QED
    BY <2>1, <2>11
<1> QED
  BY <1>5, <1>6

NewBucket(t, k, g) ==
    [key |-> k, id |-> Allocated(t).id, graph |-> g, idle |-> CellsOf(Allocated(t).id.slot),
     busy |-> {}, detached |-> 0]

LEMMA CreatedTables ==
  ASSUME NEW t, TableType(t.buckets, t.lru, t.slots, t.free),
         TableInv(t.buckets, t.slots, t.free),
         IssuedInv(t.buckets, t.slots, t.free, issued),
         CanAllocate(t), Len(t.buckets) < MaxBuckets,
         NEW k \in Keys, \A i \in DOMAIN t.buckets : t.buckets[i].key # k,
         NEW g \in Graphs \cup {None}
  PROVE  LET u == Created(t, k, g)
         IN  /\ TableType(u.buckets, u.lru, u.slots, u.free)
             /\ TableInv(u.buckets, u.slots, u.free)
             /\ IssuedInv(u.buckets, u.slots, u.free, issued \cup {Allocated(t).id})
             /\ u.buckets = Append(t.buckets, NewBucket(t, k, g))
             /\ NewBucket(t, k, g) \in Bucket
             /\ Allocated(t).id \notin issued
<1> DEFINE bs == t.buckets
           sl == t.slots
           fr == t.free
           lr == t.lru
           id == Allocated(t).id
           sl2 == Allocated(t).slots
           fr2 == Allocated(t).free
           d == NewBucket(t, k, g)
           cs == Append(bs, d)
           lr2 == Append(lr, k)
           u == Created(t, k, g)
           n == Len(bs)
<1>1. u.buckets = cs /\ u.lru = lr2 /\ u.slots = sl2 /\ u.free = fr2
  BY DEF Created, NewBucket
<1>2. AllocatedTo(bs, sl, fr, id, sl2, fr2)
  BY AllocatedIs
<1>3. /\ bs \in Seq(Bucket) /\ sl \in Seq(Slot) /\ lr \in Seq(Keys)
      /\ \A i \in DOMAIN bs : Occurs(bs[i].key, lr)
  BY DEF TableType
<1>4. d.key = k /\ d.id = id /\ d.graph = g /\ d.idle = CellsOf(id.slot) /\ d.busy = {} /\ d.detached = 0
  BY DEF NewBucket
<1>5. d \in Bucket
  <2>1. CellsOf(id.slot) \subseteq Nat /\ id \in Ids
    BY <1>2, CellsAreFinite DEF AllocatedTo, Ids
  <2> QED
    BY <2>1 DEF NewBucket, Bucket
<1> HIDE DEF id, sl2, fr2, d, u
<1>6. /\ cs \in Seq(Bucket) /\ DOMAIN bs = 1..n /\ n \in Nat /\ Len(cs) = n + 1
      /\ DOMAIN cs = 1..(n + 1) /\ \A i \in DOMAIN bs : cs[i] = bs[i]
      /\ cs[n + 1] = d
  BY <1>3, <1>5, AppendIs
<1>7. /\ lr2 \in Seq(Keys) /\ \A x : Occurs(x, lr) => Occurs(x, lr2)
      /\ Occurs(k, lr2)
  <2>1. /\ lr2 \in Seq(Keys) /\ DOMAIN lr = 1..Len(lr) /\ Len(lr) \in Nat
        /\ DOMAIN lr2 = 1..(Len(lr) + 1) /\ \A m \in DOMAIN lr : lr2[m] = lr[m]
        /\ lr2[Len(lr) + 1] = k
    BY <1>3, AppendIs
  <2> HIDE DEF lr2
  <2> QED
    BY <2>1 DEF Occurs
<1> HIDE DEF cs, lr2
<1>8. \A i \in DOMAIN cs : i = n + 1 \/ i \in DOMAIN bs
  BY <1>6
<1>9. n + 1 <= MaxBuckets
  BY <1>6, BoundsAssumption
<1>10. TableType(cs, lr2, sl2, fr2)
  <2>1. \A i \in DOMAIN cs : Occurs(cs[i].key, lr2)
    BY <1>3, <1>4, <1>6, <1>7, <1>8
  <2> QED
    BY <1>2, <1>6, <1>7, <1>9, <2>1 DEF TableType, AllocatedTo
<1>11. /\ \A i \in DOMAIN bs : /\ bs[i].id.slot \in DOMAIN sl
                               /\ sl[bs[i].id.slot].generation = bs[i].id.generation
                               /\ sl[bs[i].id.slot].index = i
       /\ \A i, j \in DOMAIN bs : bs[i].key = bs[j].key => i = j
       /\ \A s \in DOMAIN sl :
             sl[s].index # None => sl[s].index \in DOMAIN bs /\ bs[sl[s].index].id.slot = s
       /\ \A m \in DOMAIN fr : fr[m] \in DOMAIN sl /\ sl[fr[m]].index = None
       /\ \A l, m \in DOMAIN fr : fr[l] = fr[m] => l = m
  BY DEF TableInv
<1>12. \A i \in DOMAIN bs : i # None
  BY <1>6, NoneAssumption
<1>13. \A i \in DOMAIN bs : bs[i].id.slot # id.slot
  <2>1. id.slot \in DOMAIN sl => sl[id.slot].index = None
    BY <1>2 DEF AllocatedTo
  <2>2. \A i \in DOMAIN bs : bs[i].id.slot \in DOMAIN sl /\ sl[bs[i].id.slot].index # None
    BY <1>11, <1>12
  <2> QED
    BY <2>1, <2>2
<1>14. \A i \in DOMAIN cs : /\ cs[i].id.slot \in DOMAIN sl2
                            /\ sl2[cs[i].id.slot].generation = cs[i].id.generation
                            /\ sl2[cs[i].id.slot].index = i
  <2> TAKE i \in DOMAIN cs
  <2>1. CASE i = n + 1
    BY <1>2, <1>4, <1>6, <2>1 DEF AllocatedTo
  <2>2. CASE i \in DOMAIN bs
    <3>1. cs[i] = bs[i]
      BY <1>6, <2>2
    <3>2. sl2[bs[i].id.slot] = sl[bs[i].id.slot] /\ bs[i].id.slot \in DOMAIN sl2
      <4>1. bs[i].id.slot \in DOMAIN sl \ {id.slot}
        BY <1>11, <1>13, <2>2
      <4>2. DOMAIN sl \subseteq DOMAIN sl2 /\ \A s \in DOMAIN sl \ {id.slot} : sl2[s] = sl[s]
        BY <1>2 DEF AllocatedTo
      <4> QED
        BY <4>1, <4>2
    <3>3. sl[bs[i].id.slot].generation = bs[i].id.generation /\ sl[bs[i].id.slot].index = i
      BY <1>11, <2>2
    <3> QED
      BY <3>1, <3>2, <3>3
  <2> QED
    BY <1>8, <2>1, <2>2
<1>15. \A i, j \in DOMAIN cs : cs[i].key = cs[j].key => i = j
  <2>1. \A i \in DOMAIN bs : cs[i].key = bs[i].key /\ bs[i].key # cs[n + 1].key
    BY <1>4, <1>6
  <2>2. \A i, j \in DOMAIN bs : bs[i].key = bs[j].key => i = j
    BY <1>11
  <2> QED
    BY <1>8, <2>1, <2>2
<1>16. \A s \in DOMAIN sl2 :
          sl2[s].index # None => sl2[s].index \in DOMAIN cs /\ cs[sl2[s].index].id.slot = s
  <2> SUFFICES ASSUME NEW s \in DOMAIN sl2, sl2[s].index # None
               PROVE  sl2[s].index \in DOMAIN cs /\ cs[sl2[s].index].id.slot = s
    OBVIOUS
  <2>1. CASE s = id.slot
    BY <1>2, <1>4, <1>6, <2>1 DEF AllocatedTo
  <2>2. CASE s # id.slot
    <3>1. s \in DOMAIN sl /\ sl2[s] = sl[s]
      BY <1>2, <2>2 DEF AllocatedTo
    <3>2. sl[s].index \in DOMAIN bs /\ bs[sl[s].index].id.slot = s
      BY <1>11, <3>1
    <3> QED
      BY <1>6, <3>1, <3>2
  <2> QED
    BY <2>1, <2>2
<1>17. ASSUME NEW m \in DOMAIN fr2 PROVE fr2[m] \in DOMAIN sl2 /\ sl2[fr2[m]].index = None
  <2>1. m \in DOMAIN fr /\ fr2[m] = fr[m] /\ fr2[m] # id.slot
    BY <1>2 DEF AllocatedTo
  <2>2. fr2[m] \in DOMAIN sl \ {id.slot} /\ sl[fr2[m]].index = None
    BY <1>11, <2>1
  <2>3. DOMAIN sl \subseteq DOMAIN sl2 /\ \A s \in DOMAIN sl \ {id.slot} : sl2[s] = sl[s]
    BY <1>2 DEF AllocatedTo
  <2> QED
    BY <2>2, <2>3
<1>18. \A l, m \in DOMAIN fr2 : fr2[l] = fr2[m] => l = m
  <2>1. \A m \in DOMAIN fr2 : m \in DOMAIN fr /\ fr2[m] = fr[m]
    BY <1>2 DEF AllocatedTo
  <2>2. \A l, m \in DOMAIN fr : fr[l] = fr[m] => l = m
    BY <1>11
  <2> QED
    BY <2>1, <2>2
<1>19. TableInv(cs, sl2, fr2)
  BY <1>14, <1>15, <1>16, <1>17, <1>18 DEF TableInv
<1>20. IssuedInv(cs, sl2, fr2, issued \cup {id})
  <2>1. /\ issued \subseteq Ids
        /\ \A i \in DOMAIN bs : bs[i].id \in issued
        /\ \A x \in issued : x.slot \in DOMAIN sl /\ x.generation <= sl[x.slot].generation
        /\ \A x \in issued, m \in DOMAIN fr : fr[m] = x.slot => x.generation < sl[x.slot].generation
    BY DEF IssuedInv
  <2>2. issued \cup {id} \subseteq Ids
    BY <1>2, <2>1 DEF AllocatedTo
  <2>3. \A i \in DOMAIN cs : cs[i].id \in issued \cup {id}
    BY <1>4, <1>6, <1>8, <2>1
  <2>4. ASSUME NEW x \in issued \cup {id}
        PROVE  x.slot \in DOMAIN sl2 /\ x.generation <= sl2[x.slot].generation
    <3>1. CASE x = id
      <4>1. id.generation \in Nat
        BY <1>2, BoundsAssumption DEF AllocatedTo, Ids
      <4> QED
        BY <1>2, <3>1, <4>1 DEF AllocatedTo
    <3>2. CASE x \in issued
      <4>1. x.slot \in DOMAIN sl /\ x.generation <= sl[x.slot].generation
        BY <2>1, <3>2
      <4> QED
        BY <1>2, <4>1 DEF AllocatedTo
    <3> QED
      BY <3>1, <3>2
  <2>5. ASSUME NEW x \in issued \cup {id}, NEW m \in DOMAIN fr2, fr2[m] = x.slot
        PROVE  x.generation < sl2[x.slot].generation
    <3>1. m \in DOMAIN fr /\ fr[m] = x.slot /\ x.slot # id.slot
      BY <1>2, <2>5 DEF AllocatedTo
    <3>2. x \in issued
      BY <3>1
    <3>3. x.slot \in DOMAIN sl /\ x.generation < sl[x.slot].generation
      BY <2>1, <3>1, <3>2
    <3> QED
      BY <1>2, <3>1, <3>3 DEF AllocatedTo
  <2> QED
    BY <2>2, <2>3, <2>4, <2>5 DEF IssuedInv
<1>21. id \notin issued
  BY <1>2 DEF AllocatedTo
<1> QED
  BY <1>1, <1>5, <1>10, <1>19, <1>20, <1>21 DEF u, cs, d, id

(***************************************************************************)
(* Emptying the cache                                                      *)
(***************************************************************************)
\* The least-number principle, which does the inductions below.
LEMMA Least ==
  ASSUME NEW S, S \subseteq Nat, S # {}
  PROVE  \E m \in S : \A k \in S : m <= k
<1>1. PICK m \in S : \A y \in S : ~(<<y, m>> \in OpToRel(<, Nat))
  BY WFMin, NatLessThanWellFounded
<1>2. \A y \in S : ~(y < m)
  BY <1>1 DEF OpToRel
<1> QED
  BY <1>2

\* One more slot pushed, if it can be used again.
Push(bs, q, n) ==
    IF Recycled(bs[n].id.slot) THEN Append(q, bs[n].id.slot) ELSE q

\* G lists the free slots after the first 0, 1, ..., n buckets.
Pushes(bs, G, n) ==
    G = [m \in 0..n |-> IF m = 0 THEN free_prepared_slots ELSE Push(bs, G[m - 1], m)]

LEMMA PushesExist ==
  ASSUME NEW bs, NEW n \in Nat
  PROVE  \E G : Pushes(bs, G, n)
<1> DEFINE S == {m \in Nat : ~\E G : Pushes(bs, G, m)}
<1>1. ASSUME S # {} PROVE FALSE
  <2>1. PICK m \in S : \A k \in S : m <= k
    <3>1. S \subseteq Nat
      OBVIOUS
    <3> HIDE DEF S
    <3> QED
      BY <1>1, <3>1, Least
  <2>2. CASE m = 0
    <3> DEFINE G == [k \in 0..0 |-> free_prepared_slots]
    <3>1. Pushes(bs, G, 0)
      BY DEF Pushes
    <3> QED
      BY <2>1, <2>2, <3>1
  <2>3. CASE m # 0
    <3>1. m \in Nat /\ m - 1 \in Nat /\ ~(m <= m - 1)
      BY <2>1, <2>3
    <3>2. PICK G : Pushes(bs, G, m - 1)
      BY <2>1, <3>1
    <3> DEFINE H == [k \in 0..m |-> IF k = m THEN Push(bs, G[m - 1], m) ELSE G[k]]
    <3>3. \A k \in 0..(m - 1) : G[k] = IF k = 0 THEN free_prepared_slots ELSE Push(bs, G[k - 1], k)
      BY <3>2 DEF Pushes
    <3>4. \A k \in 0..m : H[k] = IF k = 0 THEN free_prepared_slots ELSE Push(bs, H[k - 1], k)
      BY <2>3, <3>1, <3>3
    <3> HIDE DEF H
    <3>5. H = [k \in 0..m |-> H[k]]
      BY DEF H
    <3>6. Pushes(bs, H, m)
      BY <3>4, <3>5 DEF Pushes
    <3> QED
      BY <2>1, <3>6
  <2> QED
    BY <2>2, <2>3
<1> QED
  BY <1>1

\* Every pushed slot is one of the old ones or that of a bucket, and none is there twice.
FreedTo(bs, n, q) ==
    /\ q \in Seq(1..MaxSlots)
    /\ \A m \in DOMAIN q :
          \/ Occurs(q[m], free_prepared_slots)
          \/ \E i \in 1..n : q[m] = bs[i].id.slot /\ prepared_slots[q[m]].generation < MaxGeneration
    /\ \A l, m \in DOMAIN q : q[l] = q[m] => l = m

LEMMA FreedSlotsAre ==
  ASSUME NEW bs, TableType(bs, lru, prepared_slots, free_prepared_slots),
         TableInv(bs, prepared_slots, free_prepared_slots)
  PROVE  FreedTo(bs, Len(bs), FreedSlots(bs))
<1> DEFINE N == Len(bs)
<1>1. PICK G : Pushes(bs, G, N)
  <2>1. N \in Nat
    BY DEF TableType
  <2> QED
    BY <2>1, PushesExist
<1> DEFINE F == CHOOSE H : Pushes(bs, H, N)
<1>2. Pushes(bs, F, N)
  BY <1>1
<1>3. FreedSlots(bs) = F[N]
  BY DEF FreedSlots, Pushes, Push
<1> HIDE DEF F
<1>4. /\ bs \in Seq(Bucket) /\ N \in Nat /\ DOMAIN bs = 1..N /\ free_prepared_slots \in Seq(1..MaxSlots)
  BY DEF TableType
<1>5. /\ \A i \in 1..N : /\ bs[i].id.slot \in DOMAIN prepared_slots /\ bs[i].id.slot \in 1..MaxSlots
                         /\ prepared_slots[bs[i].id.slot].index # None
      /\ \A i, j \in 1..N : bs[i].id.slot = bs[j].id.slot => i = j
      /\ \A n \in DOMAIN free_prepared_slots : prepared_slots[free_prepared_slots[n]].index = None
      /\ \A m, n \in DOMAIN free_prepared_slots :
            free_prepared_slots[m] = free_prepared_slots[n] => m = n
  <2>1. \A i \in 1..N : bs[i] \in Bucket /\ i # None
    BY <1>4, NoneAssumption
  <2>2. \A i \in 1..N : bs[i].id.slot \in 1..MaxSlots
    BY <2>1 DEF Bucket, Ids
  <2>3. /\ \A i \in 1..N : /\ bs[i].id.slot \in DOMAIN prepared_slots
                           /\ prepared_slots[bs[i].id.slot].index = i
        /\ \A n \in DOMAIN free_prepared_slots : prepared_slots[free_prepared_slots[n]].index = None
        /\ \A m, n \in DOMAIN free_prepared_slots :
              free_prepared_slots[m] = free_prepared_slots[n] => m = n
    BY <1>4 DEF TableInv
  <2> QED
    BY <2>1, <2>2, <2>3
<1>6. F[0] = free_prepared_slots /\ \A n \in 1..N : F[n] = Push(bs, F[n - 1], n)
  BY <1>2, <1>4 DEF Pushes
<1>7. FreedTo(bs, 0, F[0])
  BY <1>4, <1>5, <1>6 DEF FreedTo, Occurs
<1>8. ASSUME NEW n \in 1..N, FreedTo(bs, n - 1, F[n - 1]) PROVE FreedTo(bs, n, F[n])
  <2> DEFINE q == F[n - 1]
             s == bs[n].id.slot
  <2>1. /\ q \in Seq(1..MaxSlots)
        /\ \A m \in DOMAIN q :
              \/ Occurs(q[m], free_prepared_slots)
              \/ \E i \in 1..(n - 1) :
                    q[m] = bs[i].id.slot /\ prepared_slots[q[m]].generation < MaxGeneration
        /\ \A l, m \in DOMAIN q : q[l] = q[m] => l = m
    BY <1>8 DEF FreedTo
  <2>2. \A i \in 1..(n - 1) : i \in 1..n /\ i \in 1..N /\ i # n
    BY <1>4
  <2>3. CASE Recycled(s)
    <3>1. F[n] = Append(q, s)
      BY <1>6, <2>3 DEF Push
    <3>2. s \in 1..MaxSlots /\ prepared_slots[s].generation < MaxGeneration
      BY <1>5, <2>3 DEF Recycled
    <3>3. ASSUME NEW m \in DOMAIN q PROVE q[m] # s
      <4>1. CASE Occurs(q[m], free_prepared_slots)
        BY <1>5, <4>1 DEF Occurs
      <4>2. CASE \E i \in 1..(n - 1) : q[m] = bs[i].id.slot
        BY <1>5, <2>2, <4>2
      <4> QED
        BY <2>1, <4>1, <4>2
    <3> HIDE DEF q, s
    <3>4. /\ Append(q, s) \in Seq(1..MaxSlots) /\ DOMAIN q = 1..Len(q) /\ Len(q) \in Nat
          /\ DOMAIN Append(q, s) = 1..(Len(q) + 1)
          /\ \A m \in DOMAIN q : Append(q, s)[m] = q[m]
          /\ Append(q, s)[Len(q) + 1] = s
      BY <2>1, <3>2, AppendIs
    <3>5. \A l, m \in DOMAIN Append(q, s) : Append(q, s)[l] = Append(q, s)[m] => l = m
      BY <2>1, <3>3, <3>4
    <3>6. ASSUME NEW m \in DOMAIN Append(q, s)
          PROVE  \/ Occurs(Append(q, s)[m], free_prepared_slots)
                 \/ \E i \in 1..n : /\ Append(q, s)[m] = bs[i].id.slot
                                    /\ prepared_slots[Append(q, s)[m]].generation < MaxGeneration
      <4>1. CASE m \in DOMAIN q
        BY <2>1, <2>2, <3>4, <4>1
      <4>2. CASE m = Len(q) + 1
        BY <3>2, <3>4, <4>2 DEF s
      <4> QED
        BY <3>4, <4>1, <4>2
    <3> QED
      BY <3>1, <3>4, <3>5, <3>6 DEF FreedTo
  <2>4. CASE ~Recycled(s)
    <3>1. F[n] = q
      BY <1>6, <2>4 DEF Push
    <3> QED
      BY <2>1, <2>2, <3>1 DEF FreedTo
  <2> QED
    BY <2>3, <2>4
<1> DEFINE S == {n \in 0..N : ~FreedTo(bs, n, F[n])}
<1>9. ASSUME S # {} PROVE FALSE
  <2>1. PICK m \in S : \A k \in S : m <= k
    <3>1. S \subseteq Nat
      BY <1>4
    <3> HIDE DEF S
    <3> QED
      BY <1>9, <3>1, Least
  <2>2. m # 0
    BY <1>7, <2>1
  <2>3. m \in 1..N /\ m - 1 \in 0..N /\ ~(m <= m - 1)
    BY <1>4, <2>1, <2>2
  <2>4. FreedTo(bs, m - 1, F[m - 1])
    BY <2>1, <2>3
  <2> QED
    BY <1>8, <2>1, <2>3, <2>4
<1> QED
  BY <1>3, <1>4, <1>9

\* The tables of an emptied cache.
LEMMA DrainedTables ==
  ASSUME NEW bs, TableType(bs, lru, prepared_slots, free_prepared_slots),
         TableInv(bs, prepared_slots, free_prepared_slots),
         IssuedInv(bs, prepared_slots, free_prepared_slots, issued),
         Drain(bs)
  PROVE  /\ buckets' = <<>>
         /\ TableType(buckets', lru', prepared_slots', free_prepared_slots')
         /\ TableInv(buckets', prepared_slots', free_prepared_slots')
         /\ IssuedInv(buckets', prepared_slots', free_prepared_slots', issued)
<1> DEFINE sl == prepared_slots
           fr == free_prepared_slots
           fr2 == FreedSlots(bs)
           Emptied(s) == \E i \in DOMAIN bs : bs[i].id.slot = s
           sl2 == [s \in DOMAIN sl |-> IF Emptied(s) THEN RetireSlot(sl, s)[s] ELSE sl[s]]
<1>1. buckets' = <<>> /\ lru' = <<>> /\ prepared_slots' = sl2 /\ free_prepared_slots' = fr2
  BY DEF Drain, SetTables
<1>2. /\ bs \in Seq(Bucket) /\ sl \in Seq(Slot) /\ Len(sl) <= MaxSlots /\ DOMAIN bs = 1..Len(bs)
      /\ \A s \in DOMAIN sl : sl[s] \in Slot
  BY DEF TableType
<1>3. FreedTo(bs, Len(bs), fr2)
  BY FreedSlotsAre
<1> HIDE DEF fr2
<1>4. /\ \A s \in DOMAIN sl :
            sl[s].index # None => sl[s].index \in DOMAIN bs /\ bs[sl[s].index].id.slot = s
      /\ \A i \in DOMAIN bs : bs[i].id.slot \in DOMAIN sl /\ sl[bs[i].id.slot].index = i
      /\ \A n \in DOMAIN fr : fr[n] \in DOMAIN sl /\ sl[fr[n]].index = None
  BY DEF TableInv
<1>5. \A s \in DOMAIN sl :
         RetireSlot(sl, s)[s] = [generation |-> IF sl[s].generation < MaxGeneration
                                                THEN sl[s].generation + 1 ELSE sl[s].generation,
                                 index |-> None]
  BY DEF RetireSlot
<1>6. \A s \in DOMAIN sl : sl[s].generation \in 1..MaxGeneration
  BY <1>2 DEF Slot
<1>7. \A s \in DOMAIN sl : /\ sl2[s] \in Slot /\ sl2[s].index = None
                           /\ sl[s].generation <= sl2[s].generation
                           /\ Emptied(s) /\ sl[s].generation < MaxGeneration =>
                                 sl[s].generation < sl2[s].generation
  <2> TAKE s \in DOMAIN sl
  <2>1. CASE Emptied(s)
    <3>1. sl2[s] = [generation |-> IF sl[s].generation < MaxGeneration
                                   THEN sl[s].generation + 1 ELSE sl[s].generation,
                    index |-> None]
      BY <1>5, <2>1
    <3>2. sl[s].generation \in 1..MaxGeneration
      BY <1>6
    <3> HIDE DEF sl2, Emptied
    <3> QED
      BY <3>1, <3>2, BoundsAssumption DEF Slot
  <2>2. CASE ~Emptied(s)
    <3>1. sl2[s] = sl[s]
      BY <2>2
    <3>2. sl[s].index = None
      BY <1>4, <2>2
    <3>3. sl[s].generation \in Nat
      BY <1>6, BoundsAssumption
    <3> QED
      BY <1>2, <2>2, <3>1, <3>2, <3>3
  <2> QED
    BY <2>1, <2>2
<1>8. sl2 \in Seq(Slot) /\ Len(sl2) = Len(sl) /\ DOMAIN sl2 = DOMAIN sl
  <2>1. sl2 = [s \in 1..Len(sl) |-> sl2[s]] /\ DOMAIN sl = 1..Len(sl) /\ Len(sl) \in Nat
    BY <1>2
  <2> HIDE DEF sl2
  <2> QED
    BY <1>7, <2>1
<1>9. \A n \in DOMAIN fr2 : /\ fr2[n] \in DOMAIN sl
                            /\ \/ Occurs(fr2[n], fr)
                               \/ Emptied(fr2[n]) /\ sl[fr2[n]].generation < MaxGeneration
  <2> TAKE n \in DOMAIN fr2
  <2>1. CASE Occurs(fr2[n], fr)
    BY <1>4, <2>1 DEF Occurs
  <2>2. CASE \E i \in 1..Len(bs) : fr2[n] = bs[i].id.slot /\ sl[fr2[n]].generation < MaxGeneration
    BY <1>2, <1>4, <2>2
  <2> QED
    BY <1>3, <2>1, <2>2 DEF FreedTo
<1>10. TableType(<<>>, <<>>, sl2, fr2)
  <2>1. fr2 \in Seq(1..MaxSlots) /\ MaxBuckets \in Nat
    BY <1>3, BoundsAssumption DEF FreedTo
  <2> HIDE DEF sl2
  <2> QED
    BY <1>2, <1>8, <2>1 DEF TableType
<1> HIDE DEF sl2
<1>11. TableInv(<<>>, sl2, fr2)
  BY <1>3, <1>7, <1>8, <1>9 DEF TableInv, FreedTo
<1>12. IssuedInv(<<>>, sl2, fr2, issued)
  <2>1. /\ issued \subseteq Ids
        /\ \A id \in issued : id.slot \in DOMAIN sl /\ id.generation <= sl[id.slot].generation
        /\ \A id \in issued, n \in DOMAIN fr : fr[n] = id.slot => id.generation < sl[id.slot].generation
    BY DEF IssuedInv
  <2>2. \A id \in issued : id.generation \in Nat
    BY <2>1, BoundsAssumption DEF Ids
  <2>3. \A s \in DOMAIN sl : sl[s].generation \in Nat /\ sl2[s].generation \in Nat
    <3>1. \A s \in DOMAIN sl : sl2[s].generation \in 1..MaxGeneration
      BY <1>7 DEF Slot
    <3> QED
      BY <1>6, <3>1, BoundsAssumption
  <2>4. ASSUME NEW id \in issued
        PROVE  id.slot \in DOMAIN sl2 /\ id.generation <= sl2[id.slot].generation
    <3>1. id.slot \in DOMAIN sl /\ id.generation <= sl[id.slot].generation
      BY <2>1
    <3>2. sl[id.slot].generation <= sl2[id.slot].generation
      BY <1>7, <3>1
    <3> QED
      BY <1>8, <2>2, <2>3, <3>1, <3>2
  <2>5. ASSUME NEW id \in issued, NEW n \in DOMAIN fr2, fr2[n] = id.slot
        PROVE  id.generation < sl2[id.slot].generation
    <3> DEFINE s == id.slot
    <3>1. s \in DOMAIN sl /\ id.generation <= sl[s].generation /\ sl[s].generation <= sl2[s].generation
      BY <1>7, <2>1
    <3>2. CASE Occurs(s, fr)
      <4>1. id.generation < sl[s].generation
        BY <2>1, <3>2 DEF Occurs
      <4> QED
        BY <2>2, <2>3, <3>1, <4>1
    <3>3. CASE Emptied(s) /\ sl[s].generation < MaxGeneration
      <4>1. sl[s].generation < sl2[s].generation
        BY <1>7, <3>1, <3>3
      <4> QED
        BY <2>2, <2>3, <3>1, <4>1
    <3> QED
      BY <1>9, <2>5, <3>2, <3>3
  <2> QED
    BY <2>1, <2>4, <2>5 DEF IssuedInv
<1> QED
  BY <1>1, <1>10, <1>11, <1>12

(***************************************************************************)
(* Fewer buckets                                                           *)
(***************************************************************************)
LEMMA FewerBuckets ==
  ASSUME NEW bs, NEW cs, NEW i, OneLess(bs, cs, i), NEW sl, NEW fr, NEW sl2, NEW fr2,
         TableInv(bs, sl, fr), TableInv(cs, sl2, fr2)
  PROVE  /\ \A toks, rec, gn : LanesInv(bs, toks, rec, gn) => LanesInv(cs, toks, rec, gn)
         /\ \A toks, gn, g, rel, unf :
               GraphInv(bs, toks, gn, g, rel, unf) => GraphInv(cs, toks, gn, g, rel, unf)
         /\ \A S : HomeInv(bs, S) /\ (\A r \in S : r.id # bs[i].id) => HomeInv(cs, S)
         /\ PlanInv(bs) => PlanInv(cs)
<1>1. /\ \A j \in DOMAIN cs : \E k \in DOMAIN bs \ {i} : cs[j] = bs[k]
      /\ \A k \in DOMAIN bs \ {i} : \E j \in DOMAIN cs : cs[j] = bs[k]
  BY DEF OneLess
<1>2. ASSUME NEW toks, NEW rec, NEW gn, LanesInv(bs, toks, rec, gn) PROVE LanesInv(cs, toks, rec, gn)
  BY <1>1, <1>2 DEF LanesInv
<1>3. ASSUME NEW toks, NEW gn, NEW g, NEW rel, NEW unf, GraphInv(bs, toks, gn, g, rel, unf)
      PROVE  GraphInv(cs, toks, gn, g, rel, unf)
  <2>1. ASSUME NEW j \in DOMAIN cs, cs[j].graph # None
        PROVE  /\ cs[j].graph \in 1..g
               /\ cs[j].graph \notin rel
               /\ cs[j].graph \in unf => \E r \in gn : r.id = cs[j].id
               /\ \A l \in DOMAIN cs : cs[l].graph = cs[j].graph => l = j
    <3>1. PICK k \in DOMAIN bs \ {i} : cs[j] = bs[k]
      BY <1>1
    <3>2. ASSUME NEW l \in DOMAIN cs, cs[l].graph = cs[j].graph PROVE l = j
      <4>1. PICK m \in DOMAIN bs \ {i} : cs[l] = bs[m]
        BY <1>1
      <4>2. m = k
        BY <1>3, <2>1, <3>1, <3>2, <4>1 DEF GraphInv
      <4> QED
        BY <3>1, <4>1, <4>2 DEF TableInv
    <3> QED
      BY <1>3, <2>1, <3>1, <3>2 DEF GraphInv
  <2>2. \A r \in toks, j \in DOMAIN cs : cs[j].id = r.id => cs[j].graph = r.graph
    BY <1>1, <1>3 DEF GraphInv
  <2>3. /\ \A r \in toks : r.graph # None => r.graph \in 1..g /\ r.graph \notin rel
        /\ rel \subseteq 1..g /\ unf \subseteq 1..g
        /\ rel \cap unf = {}
    BY <1>3 DEF GraphInv
  <2> QED
    BY <2>1, <2>2, <2>3 DEF GraphInv
<1>4. ASSUME NEW S, HomeInv(bs, S), \A r \in S : r.id # bs[i].id PROVE HomeInv(cs, S)
  <2> SUFFICES ASSUME NEW r \in S PROVE \E j \in DOMAIN cs : cs[j].id = r.id
    BY DEF HomeInv
  <2>1. PICK k \in DOMAIN bs : bs[k].id = r.id
    BY <1>4 DEF HomeInv
  <2>2. k \in DOMAIN bs \ {i}
    BY <1>4, <2>1
  <2> QED
    BY <1>1, <2>1, <2>2
<1>5. ASSUME PlanInv(bs) PROVE PlanInv(cs)
  BY <1>1, <1>5 DEF PlanInv
<1> QED
  BY <1>2, <1>3, <1>4, <1>5

\* A bucket without detached lanes has no token and has lost no lane.
LEMMA NoneOut ==
  ASSUME NEW bs \in Seq(Bucket), NEW toks, NEW gn, LanesInv(bs, toks, {}, gn),
         NEW i \in DOMAIN bs, bs[i].detached = 0
  PROVE  \A r \in toks \cup gn : r.id # bs[i].id
<1>1. bs[i] \in Bucket /\ LaneInv(bs[i], toks, {}, gn)
  BY DEF LanesInv
<1>2. Out(bs[i].id, toks, {}, gn) = {}
  BY <1>1, OutIsFinite
<1>3. CellsIn(toks, bs[i].id) = {} /\ CellsIn(gn, bs[i].id) = {}
  BY <1>2 DEF Out
<1> QED
  BY <1>3 DEF CellsIn

\* There is an oldest bucket among those that can be evicted.
LEMMA OldestIs ==
  ASSUME NEW bs, TableType(bs, lru, prepared_slots, free_prepared_slots), Evictable(bs) # {}
  PROVE  Oldest(bs) \in Evictable(bs)
<1> DEFINE S == {LastUsed(bs[i].key) : i \in Evictable(bs)}
<1>1. Evictable(bs) \subseteq DOMAIN bs
  BY DEF Evictable
<1>2. \A i \in DOMAIN bs : LastUsed(bs[i].key) \in Nat
  <2> TAKE i \in DOMAIN bs
  <2>1. Occurs(bs[i].key, lru) /\ lru \in Seq(Keys)
    BY DEF TableType
  <2>2. LastUsed(bs[i].key) \in DOMAIN lru
    BY <2>1 DEF LastUsed, Occurs
  <2> QED
    BY <2>1, <2>2
<1>3. PICK m \in S : \A k \in S : m <= k
  <2>1. S \subseteq Nat /\ S # {}
    BY <1>1, <1>2
  <2> HIDE DEF S
  <2> QED
    BY <2>1, Least
<1>4. \E i \in Evictable(bs) : \A j \in Evictable(bs) : LastUsed(bs[i].key) <= LastUsed(bs[j].key)
  BY <1>3
<1> QED
  BY <1>4 DEF Oldest

(***************************************************************************)
(* The steps                                                               *)
(***************************************************************************)
\* What the invariant says of the tables alone.
TablesInv ==
    /\ TableType(buckets, lru, prepared_slots, free_prepared_slots)
    /\ TableInv(buckets, prepared_slots, free_prepared_slots)
    /\ IssuedInv(buckets, prepared_slots, free_prepared_slots, issued)
    /\ PlanInv(buckets)

\* A bucket of the next state has an id of this state, or one that is issued now.
FreshIds ==
    \A i \in DOMAIN buckets' :
        (\A j \in DOMAIN buckets : buckets[j].id # buckets'[i].id) => buckets'[i].id \notin issued

\* What a call finds after its reclaim.
Ready(bs) ==
    /\ SameBuckets(buckets, bs) /\ DOMAIN bs = DOMAIN buckets /\ bs \in Seq(Bucket)
    /\ TableType(bs, lru, prepared_slots, free_prepared_slots)
    /\ TableInv(bs, prepared_slots, free_prepared_slots)
    /\ IssuedInv(bs, prepared_slots, free_prepared_slots, issued)
    /\ LanesInv(bs, tokens, {}, gone)
    /\ HomeInv(bs, tokens)
    /\ GraphInv(bs, tokens, gone, next_graph, released, unfenced)
    /\ PlanInv(bs)

LEMMA ReclaimedReady ==
  ASSUME IInv, alive
  PROVE  Ready(Reclaimed)
<1> DEFINE bs == Reclaimed
<1>1. SameBuckets(buckets, bs) /\ LanesInv(bs, tokens, {}, gone)
  BY ReclaimedIs
<1>2. /\ TableType(buckets, lru, prepared_slots, free_prepared_slots)
      /\ TableInv(buckets, prepared_slots, free_prepared_slots)
      /\ IssuedInv(buckets, prepared_slots, free_prepared_slots, issued)
      /\ HomeInv(buckets, tokens \cup recovered)
      /\ GraphInv(buckets, tokens, gone, next_graph, released, unfenced)
      /\ PlanInv(buckets)
  BY DEF IInv
<1>3. HomeInv(buckets, tokens)
  BY <1>2 DEF HomeInv
<1>4. buckets \in Seq(Bucket)
  BY <1>2 DEF TableType
<1> HIDE DEF bs
<1>5. bs \in Seq(Bucket)
  BY <1>1 DEF SameBuckets
<1>6. /\ DOMAIN bs = DOMAIN buckets
      /\ TableType(bs, lru, prepared_slots, free_prepared_slots)
      /\ TableInv(bs, prepared_slots, free_prepared_slots)
      /\ IssuedInv(bs, prepared_slots, free_prepared_slots, issued)
      /\ HomeInv(bs, tokens)
      /\ GraphInv(bs, tokens, gone, next_graph, released, unfenced)
      /\ PlanInv(bs)
  BY <1>1, <1>2, <1>3, <1>4, SameTables
<1>7. Ready(bs)
  BY <1>1, <1>5, <1>6 DEF Ready
<1> QED
  BY <1>7 DEF bs

\* A step that changes at most the lanes of the buckets and the order of use.
LEMMA LaneStep ==
  ASSUME IInv, NEW cs, SameBuckets(buckets, cs), buckets' = cs,
         lru' \in Seq(Keys), \A x : Occurs(x, lru) => Occurs(x, lru'),
         prepared_slots' = prepared_slots, free_prepared_slots' = free_prepared_slots,
         issued' = issued, shape_plan' = shape_plan
  PROVE  TablesInv' /\ FreshIds
<1>1. /\ TableType(buckets, lru, prepared_slots, free_prepared_slots)
      /\ TableInv(buckets, prepared_slots, free_prepared_slots)
      /\ IssuedInv(buckets, prepared_slots, free_prepared_slots, issued)
      /\ PlanInv(buckets)
  BY DEF IInv
<1>2. buckets \in Seq(Bucket)
  BY <1>1 DEF TableType
<1>3. TableType(buckets, lru', prepared_slots, free_prepared_slots)
  BY <1>1 DEF TableType
<1>4. /\ TableType(cs, lru', prepared_slots, free_prepared_slots)
      /\ TableInv(cs, prepared_slots, free_prepared_slots)
      /\ IssuedInv(cs, prepared_slots, free_prepared_slots, issued)
      /\ PlanInv(cs) /\ DOMAIN cs = DOMAIN buckets
  BY <1>1, <1>2, <1>3, SameTables
<1>5. PlanInv(buckets)'
  BY <1>4 DEF PlanInv
<1>6. TablesInv'
  BY <1>4, <1>5 DEF TablesInv
<1>7. FreshIds
  BY <1>4 DEF FreshIds, SameBuckets
<1> QED
  BY <1>6, <1>7

\* A call that does no more than its reclaim, or a use of a cached shape.
LEMMA ReclaimStep ==
  ASSUME IInv, alive, buckets' = Reclaimed, recovered' = {},
         lru' \in Seq(Keys), \A x : Occurs(x, lru) => Occurs(x, lru'),
         UNCHANGED <<slotVars, issued, shape_plan, tokens, gone, next_graph, released, unfenced>>
  PROVE  /\ TablesInv' /\ FreshIds /\ LaneTypes'
         /\ LanesInv(buckets, tokens, recovered, gone)' /\ HomeInv(buckets, tokens \cup recovered)'
         /\ GraphInv(buckets, tokens, gone, next_graph, released, unfenced)'
<1> DEFINE bs == Reclaimed
<1>1. Ready(bs)
  BY ReclaimedReady
<1> HIDE DEF bs
<1>2. buckets' = bs
  BY DEF bs
<1>3. TablesInv' /\ FreshIds
  BY <1>1, <1>2, LaneStep DEF Ready, slotVars
<1>4. LaneTypes'
  BY DEF IInv, LaneTypes
<1>5. LanesInv(buckets', tokens', recovered', gone')
  BY <1>1, <1>2 DEF Ready
<1>6. HomeInv(buckets', tokens' \cup recovered')
  BY <1>1, <1>2 DEF Ready, HomeInv
<1>7. GraphInv(buckets', tokens', gone', next_graph', released', unfenced')
  BY <1>1, <1>2 DEF Ready
<1> QED
  BY <1>3, <1>4, <1>5, <1>6, <1>7

\* The invariant after a step, without the types that no lemma is about.
Kept ==
    /\ TablesInv' /\ FreshIds /\ LaneTypes'
    /\ LanesInv(buckets, tokens, recovered, gone)'
    /\ alive' => HomeInv(buckets, tokens \cup recovered)'
    /\ GraphInv(buckets, tokens, gone, next_graph, released, unfenced)'

LEMMA KeptIs ==
  ASSUME Kept, RestTypes' PROVE IInv' /\ FreshIds
BY DEF Kept, TablesInv, IInv

LEMMA InitIInv == Init => IInv
<1> SUFFICES ASSUME Init PROVE IInv
  OBVIOUS
<1> USE DEF Init
<1>0. MaxBuckets \in Nat /\ MaxSlots \in Nat /\ MaxGraphs \in Nat
  BY BoundsAssumption
<1>1. TableType(buckets, lru, prepared_slots, free_prepared_slots)
  BY <1>0 DEF TableType
<1>2. TableInv(buckets, prepared_slots, free_prepared_slots)
  BY DEF TableInv
<1>3. IssuedInv(buckets, prepared_slots, free_prepared_slots, issued)
  BY DEF IssuedInv
<1>4. LaneTypes
  BY DEF LaneTypes
<1>5. LanesInv(buckets, tokens, recovered, gone) /\ HomeInv(buckets, tokens \cup recovered)
  BY DEF LanesInv, HomeInv
<1>6. GraphInv(buckets, tokens, gone, next_graph, released, unfenced)
  BY DEF GraphInv
<1>7. PlanInv(buckets)
  BY DEF PlanInv
<1>8. RestTypes
  <2>1. cuda_graph \in BOOLEAN /\ alive \in BOOLEAN /\ (~alive => buckets = <<>>)
    BY Zenon
  <2>2. /\ shape_plan \subseteq SUBSET Keys /\ next_graph \in 0..MaxGraphs
        /\ retired \subseteq [graph : Graphs, done : BOOLEAN]
    BY <1>0
  <2> QED
    BY <2>1, <2>2 DEF RestTypes
<1> QED
  BY <1>1, <1>2, <1>3, <1>4, <1>5, <1>6, <1>7, <1>8 DEF IInv

\* A step that leaves the tables and the lanes alone.
LEMMA QuietStep ==
  ASSUME IInv,
         UNCHANGED <<buckets, lru, slotVars, tokenVars, next_graph, released, unfenced, issued, alive>>,
         PlanInv(buckets)'
  PROVE  Kept
<1> USE DEF slotVars, tokenVars
<1>1. TablesInv'
  BY DEF IInv, TablesInv
<1>2. FreshIds
  BY DEF FreshIds
<1>3. LaneTypes' /\ LanesInv(buckets, tokens, recovered, gone)'
  BY DEF IInv, LaneTypes
<1>4. GraphInv(buckets, tokens, gone, next_graph, released, unfenced)'
  BY DEF IInv
<1>5. alive' => HomeInv(buckets, tokens \cup recovered)'
  BY DEF IInv
<1> QED
  BY <1>1, <1>2, <1>3, <1>4, <1>5 DEF Kept

LEMMA InstallKeeps ==
  ASSUME IInv, NEW p \in SUBSET Keys, install_shape_plan(p)
  PROVE  IInv' /\ FreshIds
<1> USE DEF install_shape_plan
<1>1. PlanInv(buckets)'
  BY DEF PlanInv
<1>2. Kept
  BY <1>1, QuietStep DEF graphVars
<1>3. RestTypes'
  BY DEF IInv, RestTypes, graphVars
<1> QED
  BY <1>2, <1>3, KeptIs

LEMMA ReleaseDoneKeeps ==
  ASSUME IInv, NEW r \in retired, ReleaseDone(r)
  PROVE  IInv' /\ FreshIds
<1> USE DEF ReleaseDone
<1>1. PlanInv(buckets)'
  BY DEF PlanInv, IInv
<1>2. Kept
  BY <1>1, QuietStep
<1>3. retired' \subseteq [graph : Graphs, done : BOOLEAN]
  <2>1. retired \subseteq [graph : Graphs, done : BOOLEAN]
    BY DEF IInv, RestTypes
  <2>2. [r EXCEPT !.done = TRUE] \in [graph : Graphs, done : BOOLEAN]
    BY <2>1
  <2> QED
    BY <2>1, <2>2
<1>4. RestTypes'
  BY <1>3 DEF IInv, RestTypes
<1> QED
  BY <1>2, <1>4, KeptIs

LEMMA StutterKeeps ==
  ASSUME IInv, UNCHANGED vars
  PROVE  IInv' /\ FreshIds
<1> USE DEF vars
<1>1. PlanInv(buckets)'
  BY DEF PlanInv, IInv
<1>2. Kept
  BY <1>1, QuietStep DEF graphVars
<1>3. RestTypes'
  BY DEF IInv, RestTypes, graphVars
<1> QED
  BY <1>2, <1>3, KeptIs

(***************************************************************************)
(* Lanes of one bucket                                                     *)
(***************************************************************************)
\* cs is bs with other lanes in its i-th bucket.
LanesSet(bs, cs, i, idle, busy, detached) ==
    /\ cs \in Seq(Bucket) /\ Len(cs) = Len(bs)
    /\ \A j \in DOMAIN bs \ {i} : cs[j] = bs[j]
    /\ cs[i] \in Bucket
    /\ cs[i].key = bs[i].key /\ cs[i].id = bs[i].id /\ cs[i].graph = bs[i].graph
    /\ cs[i].idle = idle /\ cs[i].busy = busy /\ cs[i].detached = detached

LEMMA LanesAreSet ==
  ASSUME NEW bs \in Seq(Bucket), NEW i \in DOMAIN bs,
         NEW x \in SUBSET Nat, NEW y \in SUBSET Nat, NEW n \in Nat
  PROVE  /\ LanesSet(bs, [bs EXCEPT ![i].idle = x, ![i].busy = y, ![i].detached = n], i, x, y, n)
         /\ LanesSet(bs, [bs EXCEPT ![i].idle = x, ![i].busy = y], i, x, y, bs[i].detached)
         /\ LanesSet(bs, [bs EXCEPT ![i].idle = x, ![i].detached = n], i, x, bs[i].busy, n)
<1>0. bs[i] \in Bucket /\ DOMAIN bs = 1..Len(bs) /\ Len(bs) \in Nat
  OBVIOUS
<1>1. ASSUME NEW d \in Bucket, d.key = bs[i].key, d.id = bs[i].id, d.graph = bs[i].graph
      PROVE  LanesSet(bs, [bs EXCEPT ![i] = d], i, d.idle, d.busy, d.detached)
  BY <1>0, <1>1 DEF LanesSet
<1> DEFINE d1 == [[[bs[i] EXCEPT !.idle = x] EXCEPT !.busy = y] EXCEPT !.detached = n]
           d2 == [[bs[i] EXCEPT !.idle = x] EXCEPT !.busy = y]
           d3 == [[bs[i] EXCEPT !.idle = x] EXCEPT !.detached = n]
<1>2. /\ d1 \in Bucket /\ d1.key = bs[i].key /\ d1.id = bs[i].id /\ d1.graph = bs[i].graph
      /\ d1.idle = x /\ d1.busy = y /\ d1.detached = n
  BY <1>0 DEF Bucket
<1>3. /\ d2 \in Bucket /\ d2.key = bs[i].key /\ d2.id = bs[i].id /\ d2.graph = bs[i].graph
      /\ d2.idle = x /\ d2.busy = y /\ d2.detached = bs[i].detached
  BY <1>0 DEF Bucket
<1>4. /\ d3 \in Bucket /\ d3.key = bs[i].key /\ d3.id = bs[i].id /\ d3.graph = bs[i].graph
      /\ d3.idle = x /\ d3.busy = bs[i].busy /\ d3.detached = n
  BY <1>0 DEF Bucket
<1>5. [bs EXCEPT ![i].idle = x, ![i].busy = y, ![i].detached = n] = [bs EXCEPT ![i] = d1]
  BY <1>0
<1>6. [bs EXCEPT ![i].idle = x, ![i].busy = y] = [bs EXCEPT ![i] = d2]
  BY <1>0
<1>7. [bs EXCEPT ![i].idle = x, ![i].detached = n] = [bs EXCEPT ![i] = d3]
  BY <1>0
<1> HIDE DEF d1, d2, d3
<1>8. LanesSet(bs, [bs EXCEPT ![i] = d1], i, x, y, n)
  BY <1>1, <1>2
<1>9. LanesSet(bs, [bs EXCEPT ![i] = d2], i, x, y, bs[i].detached)
  BY <1>1, <1>3
<1>10. LanesSet(bs, [bs EXCEPT ![i] = d3], i, x, bs[i].busy, n)
  BY <1>1, <1>4
<1> HIDE DEF LanesSet
<1> QED
  BY <1>5, <1>6, <1>7, <1>8, <1>9, <1>10

\* A step that changes the lanes of one bucket and what is out of it.
LEMMA OneBucketStep ==
  ASSUME IInv, NEW bs, SameBuckets(buckets, bs), NEW i \in DOMAIN buckets,
         NEW x, NEW y, NEW n, LanesSet(bs, buckets', i, x, y, n),
         lru' \in Seq(Keys), \A k : Occurs(k, lru) => Occurs(k, lru'),
         prepared_slots' = prepared_slots, free_prepared_slots' = free_prepared_slots,
         issued' = issued, shape_plan' = shape_plan,
         LaneTypes', LaneInv(buckets'[i], tokens', recovered', gone'),
         \A j \in DOMAIN buckets \ {i} : LaneInv(bs[j], tokens', recovered', gone'),
         alive' => HomeInv(buckets, tokens' \cup recovered'),
         GraphInv(buckets, tokens', gone', next_graph', released', unfenced')
  PROVE  Kept
<1> DEFINE cs == buckets'
<1>1. buckets \in Seq(Bucket)
  BY DEF IInv, TableType
<1>2. SameBuckets(buckets, cs)
  BY <1>1 DEF SameBuckets, LanesSet
<1>3. DOMAIN cs = DOMAIN buckets /\ DOMAIN bs = DOMAIN buckets
  BY <1>1, <1>2 DEF SameBuckets
<1>4. LanesInv(cs, tokens', recovered', gone')
  BY <1>3 DEF LanesInv, LanesSet
<1>5. TablesInv' /\ FreshIds
  BY <1>2, LaneStep
<1>6. /\ alive' => HomeInv(cs, tokens' \cup recovered')
      /\ GraphInv(cs, tokens', gone', next_graph', released', unfenced')
  BY <1>1, <1>2, SameTables
<1> QED
  BY <1>4, <1>5, <1>6 DEF Kept

\* Reading a cached shape moves its key to the end of the order of use.
LEMMA TouchedHere ==
  ASSUME IInv, NEW i \in DOMAIN buckets
  PROVE  LET k == buckets[i].key
         IN  /\ Append(Without(lru, k), k) \in Seq(Keys)
             /\ \A x : Occurs(x, lru) => Occurs(x, Append(Without(lru, k), k))
<1>1. buckets[i] \in Bucket /\ lru \in Seq(Keys) /\ Occurs(buckets[i].key, lru)
  BY DEF IInv, TableType
<1>2. buckets[i].key \in Keys
  BY <1>1 DEF Bucket
<1> QED
  BY <1>1, <1>2, Touched

LEMMA RunOnKeeps ==
  ASSUME IInv, NEW k \in Keys, NEW cell, run_on(k, cell)
  PROVE  IInv' /\ FreshIds
<1> DEFINE bs == Reclaimed
<1>1. /\ alive /\ recovered' = {} /\ lru' = Append(Without(lru, k), k)
      /\ UNCHANGED <<cuda_graph, shape_plan, slotVars, graphVars, tokens, gone, issued, alive>>
  BY DEF run_on
<1>2. Ready(bs)
  BY <1>1, ReclaimedReady
<1>3. PICK i \in DOMAIN buckets :
          /\ buckets[i].key = k
          /\ \/ /\ cell \in bs[i].idle
                /\ buckets' = [bs EXCEPT ![i].idle = @ \ {cell}, ![i].busy = @ \cup {cell}]
             \/ /\ cell \in bs[i].busy
                /\ buckets' = [bs EXCEPT ![i].idle = @ \cup {cell}, ![i].busy = @ \ {cell}]
  BY DEF run_on
<1> HIDE DEF bs
<1>4. bs \in Seq(Bucket) /\ DOMAIN bs = DOMAIN buckets /\ SameBuckets(buckets, bs) /\ bs[i] \in Bucket
  BY <1>2 DEF Ready
<1>5. bs[i].idle \in SUBSET Nat /\ bs[i].busy \in SUBSET Nat
  BY <1>4 DEF Bucket
<1>6. \A j \in DOMAIN buckets : LaneInv(bs[j], tokens', recovered', gone')
  BY <1>1, <1>2 DEF Ready, LanesInv
<1>7. \E x \in SUBSET Nat, y \in SUBSET Nat :
         /\ LanesSet(bs, buckets', i, x, y, bs[i].detached)
         /\ x \cup y = bs[i].idle \cup bs[i].busy /\ x \cap y = {}
  <2>1. bs[i].idle \cap bs[i].busy = {}
    BY <1>6 DEF LaneInv
  <2>2. CASE /\ cell \in bs[i].idle
             /\ buckets' = [bs EXCEPT ![i].idle = @ \ {cell}, ![i].busy = @ \cup {cell}]
    <3>1. bs[i].idle \ {cell} \in SUBSET Nat /\ bs[i].busy \cup {cell} \in SUBSET Nat
      BY <1>5, <2>2
    <3>2. LanesSet(bs, buckets', i, bs[i].idle \ {cell}, bs[i].busy \cup {cell}, bs[i].detached)
      BY <1>4, <2>2, <3>1, LanesAreSet
    <3> QED
      BY <2>1, <2>2, <3>1, <3>2
  <2>3. CASE /\ cell \in bs[i].busy
             /\ buckets' = [bs EXCEPT ![i].idle = @ \cup {cell}, ![i].busy = @ \ {cell}]
    <3>1. bs[i].idle \cup {cell} \in SUBSET Nat /\ bs[i].busy \ {cell} \in SUBSET Nat
      BY <1>5, <2>3
    <3>2. LanesSet(bs, buckets', i, bs[i].idle \cup {cell}, bs[i].busy \ {cell}, bs[i].detached)
      BY <1>4, <2>3, <3>1, LanesAreSet
    <3> QED
      BY <2>1, <2>3, <3>1, <3>2
  <2> QED
    BY <1>3, <2>2, <2>3
<1>8. PICK x \in SUBSET Nat, y \in SUBSET Nat :
         /\ LanesSet(bs, buckets', i, x, y, bs[i].detached)
         /\ x \cup y = bs[i].idle \cup bs[i].busy /\ x \cap y = {}
  BY <1>7
<1>9. LaneInv(buckets'[i], tokens', recovered', gone')
  <2>1. /\ buckets'[i].id = bs[i].id /\ buckets'[i].detached = bs[i].detached
        /\ buckets'[i].idle \cup buckets'[i].busy = bs[i].idle \cup bs[i].busy
        /\ buckets'[i].idle \cap buckets'[i].busy = {}
    BY <1>8 DEF LanesSet
  <2> QED
    BY <1>4, <1>6, <2>1, LaneTurns
<1>10. LaneTypes'
  BY <1>1 DEF IInv, LaneTypes
<1>11. HomeInv(buckets, tokens' \cup recovered')
  BY <1>1 DEF IInv, HomeInv
<1>12. GraphInv(buckets, tokens', gone', next_graph', released', unfenced')
  BY <1>1 DEF IInv, graphVars
<1>13. Kept
  BY <1>1, <1>3, <1>4, <1>6, <1>8, <1>9, <1>10, <1>11, <1>12, OneBucketStep, TouchedHere DEF slotVars
<1>14. RestTypes'
  BY <1>1 DEF IInv, RestTypes, graphVars
<1> QED
  BY <1>13, <1>14, KeptIs

(***************************************************************************)
(* Tokens                                                                  *)
(***************************************************************************)
\* Tokens that are still out, with the graphs they had, and more lost lanes.
LEMMA GraphsOfTokens ==
  ASSUME NEW bs, NEW toks, NEW gn, NEW g, NEW rel, NEW unf, GraphInv(bs, toks, gn, g, rel, unf),
         NEW toks2, \A r \in toks2 : \E q \in toks : q.id = r.id /\ q.graph = r.graph,
         NEW gn2, gn \subseteq gn2
  PROVE  GraphInv(bs, toks2, gn2, g, rel, unf)
<1>1. \A r \in toks2 : r.graph # None => r.graph \in 1..g /\ r.graph \notin rel
  BY DEF GraphInv
<1>2. \A r \in toks2, i \in DOMAIN bs : bs[i].id = r.id => bs[i].graph = r.graph
  BY DEF GraphInv
<1>3. \A i \in DOMAIN bs : bs[i].graph # None =>
         (bs[i].graph \in unf => \E r \in gn2 : r.id = bs[i].id)
  BY DEF GraphInv
<1> QED
  BY <1>1, <1>2, <1>3 DEF GraphInv

\* The graph of a lane that leaks with its work pending; gn has that lane.
LEMMA GraphLeaks ==
  ASSUME NEW bs, NEW toks, NEW gn, NEW g, NEW rel, NEW unf, GraphInv(bs, toks, gn, g, rel, unf),
         NEW h \in 1..g, h \notin rel,
         \A i \in DOMAIN bs : bs[i].graph = h => \E r \in gn : r.id = bs[i].id
  PROVE  GraphInv(bs, toks, gn, g, rel, unf \cup {h})
BY DEF GraphInv

\* A step that takes a token away, or changes it.
LEMMA TokenStep ==
  ASSUME IInv, UNCHANGED <<buckets, lru, slotVars, issued, shape_plan, alive>>,
         LaneTypes', LanesInv(buckets, tokens', recovered', gone'),
         \A r \in tokens' \cup recovered' : \E q \in tokens \cup recovered : q.id = r.id,
         GraphInv(buckets, tokens', gone', next_graph', released', unfenced')
  PROVE  Kept
<1> USE DEF slotVars
<1>1. PlanInv(buckets)'
  BY DEF IInv, PlanInv
<1>2. TablesInv'
  BY <1>1 DEF IInv, TablesInv
<1>3. FreshIds
  BY DEF FreshIds
<1>4. alive => HomeInv(buckets, tokens \cup recovered)
  BY DEF IInv
<1>5. alive' => HomeInv(buckets, tokens' \cup recovered')
  BY <1>4 DEF HomeInv
<1> QED
  BY <1>2, <1>3, <1>5 DEF Kept

LEMMA TokenType ==
  ASSUME IInv, NEW r \in tokens
  PROVE  /\ r \in [cell : Nat, id : issued, graph : Graphs \cup {None}, busy : BOOLEAN]
         /\ [cell |-> r.cell, id |-> r.id] \in [cell : Nat, id : issued]
         /\ r.graph # None => r.graph \in 1..next_graph /\ r.graph \notin released
<1>1. r \in [cell : Nat, id : issued, graph : Graphs \cup {None}, busy : BOOLEAN]
  BY DEF IInv, LaneTypes
<1>2. r.graph # None => r.graph \in 1..next_graph /\ r.graph \notin released
  BY DEF IInv, GraphInv
<1> QED
  BY <1>1, <1>2

LEMMA SettlesKeeps ==
  ASSUME IInv, NEW r \in tokens, token_settles(r)
  PROVE  IInv' /\ FreshIds
<1> DEFINE q == [r EXCEPT !.busy = FALSE]
<1>1. r \in [cell : Nat, id : issued, graph : Graphs \cup {None}, busy : BOOLEAN]
  BY TokenType
<1>2. q.id = r.id /\ q.cell = r.cell /\ q.graph = r.graph
  BY <1>1
<1>3. q \in [cell : Nat, id : issued, graph : Graphs \cup {None}, busy : BOOLEAN]
  BY <1>1
<1>4. /\ tokens' = (tokens \ {r}) \cup {q}
      /\ UNCHANGED <<cuda_graph, shape_plan, buckets, lru, slotVars, graphVars, recovered, gone,
                     issued, alive>>
  BY DEF token_settles
<1> HIDE DEF q
<1>5. LaneTypes'
  BY <1>3, <1>4 DEF IInv, LaneTypes
<1>6. ASSUME NEW i \in DOMAIN buckets PROVE LaneInv(buckets[i], tokens', recovered', gone')
  <2>1. buckets[i] \in Bucket /\ LaneInv(buckets[i], tokens, recovered, gone)
    BY DEF IInv, LanesInv, TableType
  <2>2. CASE buckets[i].id = r.id
    BY <1>2, <1>4, <2>1, <2>2, TokenChanges
  <2>3. CASE buckets[i].id # r.id
    BY <1>2, <1>4, <2>1, <2>3, LanesOfOthers
  <2> QED
    BY <2>2, <2>3
<1>7. LanesInv(buckets, tokens', recovered', gone')
  BY <1>6 DEF LanesInv
<1>8. GraphInv(buckets, tokens', gone', next_graph', released', unfenced')
  <2>1. GraphInv(buckets, tokens, gone, next_graph, released, unfenced)
    BY DEF IInv
  <2> QED
    BY <1>2, <1>4, <2>1, GraphsOfTokens DEF graphVars
<1>9. Kept
  BY <1>2, <1>4, <1>5, <1>7, <1>8, TokenStep
<1>10. RestTypes'
  BY <1>4 DEF IInv, RestTypes, graphVars
<1> QED
  BY <1>9, <1>10, KeptIs

\* The lane of a token leaks.
LEMMA TokenLeaks ==
  ASSUME IInv, NEW r \in tokens, NEW pending \in BOOLEAN, tokens' = tokens \ {r},
         Leak(r.cell, r.id, r.graph, pending),
         UNCHANGED <<buckets, lru, slotVars, issued, shape_plan, alive, recovered, next_graph, released>>
  PROVE  Kept
<1> DEFINE q == [cell |-> r.cell, id |-> r.id]
<1>1. q.cell = r.cell /\ q.id = r.id /\ gone' = gone \cup {q}
  BY DEF Leak
<1>2. q \in [cell : Nat, id : issued]
  BY TokenType
<1> HIDE DEF q
<1>3. LaneTypes'
  BY <1>1, <1>2 DEF IInv, LaneTypes
<1>4. ASSUME NEW i \in DOMAIN buckets PROVE LaneInv(buckets[i], tokens', recovered', gone')
  <2>1. buckets[i] \in Bucket /\ LaneInv(buckets[i], tokens, recovered, gone)
    BY DEF IInv, LanesInv, TableType
  <2>2. CASE buckets[i].id = r.id
    BY <1>1, <2>1, <2>2, TokenIntoGone
  <2>3. CASE buckets[i].id # r.id
    BY <1>1, <2>1, <2>3, LanesOfOthers
  <2> QED
    BY <2>2, <2>3
<1>5. LanesInv(buckets, tokens', recovered', gone')
  BY <1>4 DEF LanesInv
<1>6. GraphInv(buckets, tokens, gone, next_graph, released, unfenced)
  BY DEF IInv
<1>7. GraphInv(buckets, tokens', gone', next_graph, released, unfenced)
  BY <1>1, <1>6, GraphsOfTokens
<1>8. GraphInv(buckets, tokens', gone', next_graph', released', unfenced')
  <2>1. CASE unfenced' = unfenced
    BY <1>7, <2>1
  <2>2. CASE r.graph # None /\ unfenced' = unfenced \cup {r.graph}
    <3>1. r.graph \in 1..next_graph /\ r.graph \notin released
      BY <2>2, TokenType
    <3>2. ASSUME NEW i \in DOMAIN buckets, buckets[i].graph = r.graph
          PROVE  \E x \in gone' : x.id = buckets[i].id
      <4>1. buckets # <<>>
        BY <3>2
      <4>2. alive
        BY <4>1 DEF IInv, RestTypes
      <4>3. PICK j \in DOMAIN buckets : buckets[j].id = r.id
        BY <4>2 DEF IInv, HomeInv
      <4>4. buckets[j].graph = r.graph
        BY <1>6, <4>3 DEF GraphInv
      <4>5. i = j
        BY <1>6, <2>2, <3>2, <4>4 DEF GraphInv
      <4> QED
        BY <1>1, <4>3, <4>5
    <3> QED
      BY <1>7, <2>2, <3>1, <3>2, GraphLeaks
  <2> QED
    BY <2>1, <2>2 DEF Leak
<1>9. \A x \in tokens' \cup recovered' : \E y \in tokens \cup recovered : y.id = x.id
  OBVIOUS
<1> QED
  BY <1>3, <1>5, <1>8, <1>9, TokenStep

LEMMA DropKeeps ==
  ASSUME IInv, NEW r \in tokens, token_drop(r)
  PROVE  IInv' /\ FreshIds
<1>1. /\ tokens' = tokens \ {r}
      /\ UNCHANGED <<cuda_graph, shape_plan, buckets, lru, slotVars, next_graph, retired, released,
                     issued, alive>>
  BY DEF token_drop
<1> SUFFICES Kept
  <2>1. RestTypes'
    BY <1>1 DEF IInv, RestTypes
  <2> QED
    BY <2>1, KeptIs
<1>2. CASE /\ recovered' = recovered \cup {[cell |-> r.cell, id |-> r.id]}
           /\ UNCHANGED <<gone, unfenced>>
  <2> DEFINE q == [cell |-> r.cell, id |-> r.id]
  <2>1. q.cell = r.cell /\ q.id = r.id /\ recovered' = recovered \cup {q}
    BY <1>2
  <2>2. q \in [cell : Nat, id : issued]
    BY TokenType
  <2> HIDE DEF q
  <2>3. LaneTypes'
    BY <1>1, <1>2, <2>1, <2>2 DEF IInv, LaneTypes
  <2>4. ASSUME NEW i \in DOMAIN buckets PROVE LaneInv(buckets[i], tokens', recovered', gone')
    <3>1. buckets[i] \in Bucket /\ LaneInv(buckets[i], tokens, recovered, gone)
      BY DEF IInv, LanesInv, TableType
    <3>2. CASE buckets[i].id = r.id
      BY <1>1, <1>2, <2>1, <3>1, <3>2, TokenIntoRecovered
    <3>3. CASE buckets[i].id # r.id
      BY <1>1, <1>2, <2>1, <3>1, <3>3, LanesOfOthers
    <3> QED
      BY <3>2, <3>3
  <2>5. LanesInv(buckets, tokens', recovered', gone')
    BY <2>4 DEF LanesInv
  <2>6. GraphInv(buckets, tokens', gone', next_graph', released', unfenced')
    <3>1. GraphInv(buckets, tokens, gone, next_graph, released, unfenced)
      BY DEF IInv
    <3> QED
      BY <1>1, <1>2, <3>1, GraphsOfTokens
  <2>7. \A x \in tokens' \cup recovered' : \E y \in tokens \cup recovered : y.id = x.id
    BY <1>1, <2>1
  <2> QED
    BY <1>1, <2>3, <2>5, <2>6, <2>7, TokenStep
<1>3. CASE \E pending \in BOOLEAN : Leak(r.cell, r.id, r.graph, pending) /\ UNCHANGED recovered
  BY <1>1, <1>3, TokenLeaks
<1> QED
  BY <1>2, <1>3 DEF token_drop

LEMMA CompleteKeeps ==
  ASSUME IInv, NEW r \in tokens, complete_owned(r)
  PROVE  IInv' /\ FreshIds
<1>1. /\ alive /\ tokens' = tokens \ {r}
      /\ UNCHANGED <<cuda_graph, shape_plan, lru, slotVars, next_graph, retired, released, recovered,
                     issued, alive>>
  BY DEF complete_owned
<1> SUFFICES Kept
  <2>1. RestTypes'
    BY <1>1 DEF IInv, RestTypes
  <2> QED
    BY <2>1, KeptIs
<1>2. CASE /\ buckets' = Returned(buckets, prepared_bucket_index(r.id), r.cell)
           /\ UNCHANGED <<gone, unfenced>>
  <2>1. PICK i \in DOMAIN buckets : buckets[i].id = r.id
    BY <1>1 DEF IInv, HomeInv
  <2>2. prepared_bucket_index(r.id) = i
    BY <2>1, IndexIs
  <2>3. /\ buckets \in Seq(Bucket) /\ buckets[i] \in Bucket
        /\ \A j \in DOMAIN buckets : LaneInv(buckets[j], tokens, recovered, gone)
    BY DEF IInv, TableType, LanesInv
  <2>4. SameBuckets(buckets, buckets)
    BY <2>3 DEF SameBuckets
  <2> DEFINE x == buckets[i].idle \cup {r.cell}
             n == buckets[i].detached - 1
             d == [buckets[i] EXCEPT !.idle = @ \cup {r.cell}, !.detached = @ - 1]
  <2>5. d \in Bucket /\ LaneInv(d, tokens', recovered', gone')
    BY <1>1, <1>2, <2>1, <2>3, TokenIntoIdle
  <2>6. d.idle = x /\ d.busy = buckets[i].busy /\ d.detached = n /\ d.id = buckets[i].id
    BY <2>3 DEF Bucket
  <2>7. x \in SUBSET Nat /\ n \in Nat
    BY <2>5, <2>6 DEF Bucket
  <2>8. LanesSet(buckets, buckets', i, x, buckets[i].busy, n)
    <3>1. buckets' = [buckets EXCEPT ![i].idle = x, ![i].detached = n]
      BY <1>2, <2>2 DEF Returned
    <3> HIDE DEF x, n
    <3> QED
      BY <2>3, <2>7, <3>1, LanesAreSet
  <2> HIDE DEF x, n, d
  <2>9. LaneInv(buckets'[i], tokens', recovered', gone')
    <3>1. /\ buckets'[i].id = d.id /\ buckets'[i].detached = d.detached
          /\ buckets'[i].idle = d.idle /\ buckets'[i].busy = d.busy
      BY <2>6, <2>8 DEF LanesSet
    <3>2. d.idle \cap d.busy = {}
      BY <2>5 DEF LaneInv
    <3> QED
      BY <2>5, <3>1, <3>2, LaneTurns
  <2>10. ASSUME NEW j \in DOMAIN buckets \ {i} PROVE LaneInv(buckets[j], tokens', recovered', gone')
    <3>1. buckets[j].id # r.id
      BY <2>1, IdsDiffer DEF IInv
    <3> QED
      BY <1>1, <1>2, <2>3, <3>1, LanesOfOthers
  <2>11. LaneTypes'
    BY <1>1, <1>2 DEF IInv, LaneTypes
  <2>12. HomeInv(buckets, tokens' \cup recovered')
    BY <1>1 DEF IInv, HomeInv
  <2>13. GraphInv(buckets, tokens', gone', next_graph', released', unfenced')
    <3>1. GraphInv(buckets, tokens, gone, next_graph, released, unfenced)
      BY DEF IInv
    <3> QED
      BY <1>1, <1>2, <3>1, GraphsOfTokens
  <2>14. lru' \in Seq(Keys) /\ \A k : Occurs(k, lru) => Occurs(k, lru')
    BY <1>1 DEF IInv, TableType
  <2> QED
    BY <1>1, <2>4, <2>8, <2>9, <2>10, <2>11, <2>12, <2>13, <2>14, OneBucketStep DEF slotVars
<1>3. CASE Leak(r.cell, r.id, r.graph, TRUE) /\ UNCHANGED buckets
  BY <1>1, <1>3, TokenLeaks
<1> QED
  BY <1>2, <1>3 DEF complete_owned

(***************************************************************************)
(* enqueue_prepared                                                        *)
(***************************************************************************)
\* The buckets with a lane popped from one of them, put back busy, or put back idle.
LEMMA PoppedLane ==
  ASSUME NEW bs \in Seq(Bucket), NEW i \in DOMAIN bs, NEW cell \in bs[i].idle \cup bs[i].busy
  PROVE  LET popped == [bs EXCEPT ![i].idle = @ \ {cell}, ![i].busy = @ \ {cell}, ![i].detached = @ + 1]
             queued == [bs EXCEPT ![i].idle = @ \ {cell}, ![i].busy = @ \cup {cell}]
         IN  /\ cell \in Nat
             /\ LanesSet(bs, popped, i, bs[i].idle \ {cell}, bs[i].busy \ {cell}, bs[i].detached + 1)
             /\ LanesSet(bs, queued, i, bs[i].idle \ {cell}, bs[i].busy \cup {cell}, bs[i].detached)
             /\ LanesSet(bs, Returned(popped, i, cell), i,
                         (bs[i].idle \ {cell}) \cup {cell}, bs[i].busy \ {cell}, bs[i].detached)
<1> DEFINE x == bs[i].idle \ {cell}
           y == bs[i].busy \ {cell}
           z == bs[i].busy \cup {cell}
           m == bs[i].detached + 1
           popped == [bs EXCEPT ![i].idle = @ \ {cell}, ![i].busy = @ \ {cell}, ![i].detached = @ + 1]
           queued == [bs EXCEPT ![i].idle = @ \ {cell}, ![i].busy = @ \cup {cell}]
<1>1. bs[i] \in Bucket
  OBVIOUS
<1>2. bs[i].idle \in SUBSET Nat /\ bs[i].busy \in SUBSET Nat /\ bs[i].detached \in Nat
  BY <1>1 DEF Bucket
<1>3. /\ x \in SUBSET Nat /\ y \in SUBSET Nat /\ z \in SUBSET Nat /\ x \cup {cell} \in SUBSET Nat
      /\ cell \in Nat
  BY <1>2
<1>4. m \in Nat /\ m - 1 = bs[i].detached
  BY <1>2
<1>5. popped = [bs EXCEPT ![i].idle = x, ![i].busy = y, ![i].detached = m]
  OBVIOUS
<1>6. queued = [bs EXCEPT ![i].idle = x, ![i].busy = z]
  OBVIOUS
<1> HIDE DEF x, y, z, m, popped, queued
<1>7. LanesSet(bs, popped, i, x, y, m)
  BY <1>3, <1>4, <1>5, LanesAreSet
<1>8. LanesSet(bs, queued, i, x, z, bs[i].detached)
  BY <1>3, <1>6, LanesAreSet
<1>9. LanesSet(bs, Returned(popped, i, cell), i, x \cup {cell}, y, bs[i].detached)
  <2>1. /\ popped \in Seq(Bucket) /\ Len(popped) = Len(bs) /\ DOMAIN popped = DOMAIN bs
        /\ popped[i].idle = x /\ popped[i].busy = y /\ popped[i].detached = m
    BY <1>7 DEF LanesSet
  <2> DEFINE w == x \cup {cell}
             n == bs[i].detached
  <2>2. Returned(popped, i, cell) = [popped EXCEPT ![i].idle = w, ![i].detached = n]
    BY <1>4, <2>1 DEF Returned
  <2>3. w \in SUBSET Nat /\ n \in Nat
    BY <1>2, <1>3
  <2> HIDE DEF w, n
  <2>4. LanesSet(popped, Returned(popped, i, cell), i, w, y, n)
    <3>1. i \in DOMAIN popped /\ y \in SUBSET Nat
      BY <1>3, <2>1
    <3>2. LanesSet(popped, [popped EXCEPT ![i].idle = w, ![i].detached = n], i, w, popped[i].busy, n)
      BY <2>1, <2>3, <3>1, LanesAreSet
    <3> QED
      BY <2>1, <2>2, <3>2
  <2>5. LanesSet(bs, Returned(popped, i, cell), i, w, y, n)
    BY <1>7, <2>1, <2>4 DEF LanesSet
  <2> QED
    BY <2>5 DEF w, n
<1> QED
  BY <1>3, <1>7, <1>8, <1>9 DEF x, y, z, m, popped, queued

\* The popped lane went out with a token or for good.
LEMMA PoppedStep ==
  ASSUME IInv, alive, NEW bs, Ready(bs), NEW i \in DOMAIN buckets, NEW cell \in bs[i].idle \cup bs[i].busy,
         LanesSet(bs, buckets', i, bs[i].idle \ {cell}, bs[i].busy \ {cell}, bs[i].detached + 1),
         recovered' = {},
         UNCHANGED <<shape_plan, lru, slotVars, next_graph, released, issued, alive>>,
         \/ /\ tokens' = tokens \cup {[cell |-> cell, id |-> bs[i].id, graph |-> bs[i].graph, busy |-> TRUE]}
            /\ UNCHANGED <<gone, unfenced>>
         \/ /\ \E pending \in BOOLEAN : Leak(cell, bs[i].id, bs[i].graph, pending)
            /\ UNCHANGED tokens
  PROVE  Kept
<1>1. /\ bs \in Seq(Bucket) /\ DOMAIN bs = DOMAIN buckets /\ SameBuckets(buckets, bs)
      /\ bs[i] \in Bucket
      /\ \A j \in DOMAIN buckets : bs[j] \in Bucket /\ LaneInv(bs[j], tokens, {}, gone)
      /\ TableInv(bs, prepared_slots, free_prepared_slots)
  BY DEF Ready, LanesInv
<1>2. /\ buckets[i].id = bs[i].id /\ buckets[i].graph = bs[i].graph
      /\ bs[i].id \in issued /\ bs[i].graph \in Graphs \cup {None} /\ cell \in Nat
  <2>1. bs[i].id \in issued
    BY <1>1 DEF Ready, IssuedInv
  <2>2. bs[i].idle \in SUBSET Nat /\ bs[i].busy \in SUBSET Nat /\ bs[i].graph \in Graphs \cup {None}
    BY <1>1 DEF Bucket
  <2> QED
    BY <1>1, <2>1, <2>2 DEF SameBuckets
<1> DEFINE d == [bs[i] EXCEPT !.idle = @ \ {cell}, !.busy = @ \ {cell}, !.detached = @ + 1]
<1>3. /\ d.idle = bs[i].idle \ {cell} /\ d.busy = bs[i].busy \ {cell}
      /\ d.detached = bs[i].detached + 1 /\ d.id = bs[i].id
  BY <1>1 DEF Bucket
<1>4. \A j \in DOMAIN buckets \ {i} : bs[j].id # bs[i].id
  BY <1>1, IdsDiffer
<1>5. ASSUME d \in Bucket, LaneInv(d, tokens', recovered', gone')
      PROVE  LaneInv(buckets'[i], tokens', recovered', gone')
  <2> HIDE DEF d
  <2>1. /\ buckets'[i].id = d.id /\ buckets'[i].detached = d.detached
        /\ buckets'[i].idle = d.idle /\ buckets'[i].busy = d.busy
    BY <1>3 DEF LanesSet
  <2>2. d.idle \cap d.busy = {}
    BY <1>5 DEF LaneInv
  <2> QED
    BY <1>5, <2>1, <2>2, LaneTurns
<1>6. GraphInv(buckets, tokens, gone, next_graph, released, unfenced)
  BY DEF IInv
<1>7. lru' \in Seq(Keys) /\ \A k : Occurs(k, lru) => Occurs(k, lru')
  BY DEF IInv, TableType
<1>8. CASE /\ tokens' = tokens \cup {[cell |-> cell, id |-> bs[i].id, graph |-> bs[i].graph, busy |-> TRUE]}
           /\ UNCHANGED <<gone, unfenced>>
  <2> DEFINE r == [cell |-> cell, id |-> bs[i].id, graph |-> bs[i].graph, busy |-> TRUE]
  <2>1. r.cell = cell /\ r.id = bs[i].id /\ r.graph = bs[i].graph
    OBVIOUS
  <2>2. r \in [cell : Nat, id : issued, graph : Graphs \cup {None}, busy : BOOLEAN]
    BY <1>2
  <2>3. tokens' = tokens \cup {r}
    BY <1>8
  <2> HIDE DEF r
  <2>4. LaneTypes'
    BY <1>8, <2>2, <2>3 DEF IInv, LaneTypes
  <2>5. LaneInv(buckets'[i], tokens', recovered', gone')
    <3>1. d \in Bucket /\ LaneInv(d, tokens \cup {r}, {}, gone)
      BY <1>1, <2>1, LaneIntoToken
    <3>2. LaneInv(d, tokens', recovered', gone')
      BY <1>8, <2>3, <3>1
    <3> QED
      BY <1>5, <3>1, <3>2
  <2>6. ASSUME NEW j \in DOMAIN buckets \ {i} PROVE LaneInv(bs[j], tokens', recovered', gone')
    BY <1>1, <1>4, <1>8, <2>1, <2>3, LanesOfOthers
  <2>7. HomeInv(buckets, tokens' \cup recovered')
    BY <1>2, <2>1, <2>3 DEF IInv, HomeInv
  <2>8. GraphInv(buckets, tokens', gone', next_graph', released', unfenced')
    <3>1. \A q \in tokens' : q.graph # None => q.graph \in 1..next_graph /\ q.graph \notin released
      BY <1>2, <1>6, <2>1, <2>3 DEF GraphInv
    <3>2. ASSUME NEW j \in DOMAIN buckets, buckets[j].id = r.id PROVE buckets[j].graph = r.graph
      <4>1. j = i
        BY <1>2, <2>1, <3>2, IdsDiffer DEF IInv
      <4> QED
        BY <1>2, <2>1, <4>1
    <3>3. \A q \in tokens', j \in DOMAIN buckets : buckets[j].id = q.id => buckets[j].graph = q.graph
      BY <1>6, <2>3, <3>2 DEF GraphInv
    <3> QED
      BY <1>6, <1>8, <3>1, <3>3 DEF GraphInv
  <2> QED
    BY <1>1, <1>7, <2>4, <2>5, <2>6, <2>7, <2>8, OneBucketStep DEF slotVars
<1>9. ASSUME NEW pending \in BOOLEAN, Leak(cell, bs[i].id, bs[i].graph, pending), UNCHANGED tokens
      PROVE  Kept
  <2> DEFINE r == [cell |-> cell, id |-> bs[i].id]
  <2>1. r.cell = cell /\ r.id = bs[i].id /\ gone' = gone \cup {r}
    BY <1>9 DEF Leak
  <2>2. r \in [cell : Nat, id : issued]
    BY <1>2
  <2> HIDE DEF r
  <2>4. LaneTypes'
    BY <1>9, <2>1, <2>2 DEF IInv, LaneTypes
  <2>5. LaneInv(buckets'[i], tokens', recovered', gone')
    <3>1. d \in Bucket /\ LaneInv(d, tokens', recovered', gone')
      BY <1>1, <1>9, <2>1, LaneIntoGone
    <3> QED
      BY <1>5, <3>1
  <2>6. ASSUME NEW j \in DOMAIN buckets \ {i} PROVE LaneInv(bs[j], tokens', recovered', gone')
    BY <1>1, <1>4, <1>9, <2>1, LanesOfOthers
  <2>7. HomeInv(buckets, tokens' \cup recovered')
    BY <1>9 DEF IInv, HomeInv
  <2>8. GraphInv(buckets, tokens', gone', next_graph', released', unfenced')
    <3>1. GraphInv(buckets, tokens', gone', next_graph', released', unfenced)
      BY <1>6, <1>9, <2>1, GraphsOfTokens
    <3>2. CASE bs[i].graph # None
      <4>1. bs[i].graph \in 1..next_graph /\ bs[i].graph \notin released
        BY <1>2, <1>6, <3>2 DEF GraphInv
      <4>2. ASSUME NEW j \in DOMAIN buckets, buckets[j].graph = bs[i].graph
            PROVE  \E q \in gone' : q.id = buckets[j].id
        <5>1. j = i
          BY <1>2, <1>6, <3>2, <4>2 DEF GraphInv
        <5> QED
          BY <1>2, <2>1, <5>1
      <4>3. GraphInv(buckets, tokens', gone', next_graph', released', unfenced \cup {bs[i].graph})
        BY <3>1, <4>1, <4>2, GraphLeaks
      <4> QED
        BY <1>9, <3>1, <4>3 DEF Leak
    <3>3. CASE bs[i].graph = None
      BY <1>9, <3>1, <3>3 DEF Leak
    <3> QED
      BY <3>2, <3>3
  <2> QED
    BY <1>1, <1>7, <2>4, <2>5, <2>6, <2>7, <2>8, OneBucketStep DEF slotVars
<1> QED
  BY <1>8, <1>9

\* The lane went back to its bucket.
LEMMA BackStep ==
  ASSUME IInv, alive, NEW bs, Ready(bs), NEW i \in DOMAIN buckets, NEW cell \in bs[i].idle \cup bs[i].busy,
         \/ LanesSet(bs, buckets', i, bs[i].idle \ {cell}, bs[i].busy \cup {cell}, bs[i].detached)
         \/ LanesSet(bs, buckets', i, (bs[i].idle \ {cell}) \cup {cell}, bs[i].busy \ {cell}, bs[i].detached),
         recovered' = {},
         UNCHANGED <<shape_plan, lru, slotVars, next_graph, released, unfenced, tokens, gone, issued, alive>>
  PROVE  Kept
<1>1. /\ bs \in Seq(Bucket) /\ DOMAIN bs = DOMAIN buckets /\ SameBuckets(buckets, bs)
      /\ bs[i] \in Bucket
      /\ \A j \in DOMAIN buckets : LaneInv(bs[j], tokens', recovered', gone')
  BY DEF Ready, LanesInv
<1>2. PICK x, y : /\ LanesSet(bs, buckets', i, x, y, bs[i].detached)
                  /\ x \cup y = bs[i].idle \cup bs[i].busy /\ x \cap y = {}
  <2>1. bs[i].idle \cap bs[i].busy = {}
    BY <1>1 DEF LaneInv
  <2> QED
    BY <2>1
<1>3. LaneInv(buckets'[i], tokens', recovered', gone')
  <2>1. /\ buckets'[i].id = bs[i].id /\ buckets'[i].detached = bs[i].detached
        /\ buckets'[i].idle \cup buckets'[i].busy = bs[i].idle \cup bs[i].busy
        /\ buckets'[i].idle \cap buckets'[i].busy = {}
    BY <1>2 DEF LanesSet
  <2> QED
    BY <1>1, <2>1, LaneTurns
<1>4. LaneTypes'
  BY DEF IInv, LaneTypes
<1>5. HomeInv(buckets, tokens' \cup recovered')
  BY DEF IInv, HomeInv
<1>6. GraphInv(buckets, tokens', gone', next_graph', released', unfenced')
  BY DEF IInv
<1>7. lru' \in Seq(Keys) /\ \A k : Occurs(k, lru) => Occurs(k, lru')
  BY DEF IInv, TableType
<1> QED
  BY <1>1, <1>2, <1>3, <1>4, <1>5, <1>6, <1>7, OneBucketStep DEF slotVars

LEMMA EnqueueKeeps ==
  ASSUME IInv, NEW id, enqueue_prepared(id)
  PROVE  IInv' /\ FreshIds
<1>1. /\ alive /\ recovered' = {}
      /\ UNCHANGED <<cuda_graph, shape_plan, lru, slotVars, next_graph, retired, released, issued, alive>>
  BY DEF enqueue_prepared
<1> SUFFICES Kept
  <2>1. RestTypes'
    BY <1>1 DEF IInv, RestTypes
  <2> QED
    BY <2>1, KeptIs
<1> DEFINE bs == Reclaimed
<1>2. Ready(bs)
  BY <1>1, ReclaimedReady
<1>3. CASE buckets' = bs /\ UNCHANGED <<tokens, gone, unfenced>>
  <2>1. lru' \in Seq(Keys) /\ \A k : Occurs(k, lru) => Occurs(k, lru')
    BY <1>1 DEF IInv, TableType
  <2> QED
    BY <1>1, <1>3, <2>1, ReclaimStep DEF Kept
<1>4. ASSUME NEW i \in DOMAIN buckets, NEW cell \in bs[i].idle \cup bs[i].busy, Detach(i, cell)
      PROVE  Kept
  <2> DEFINE popped == [bs EXCEPT ![i].idle = @ \ {cell}, ![i].busy = @ \ {cell}, ![i].detached = @ + 1]
             queued == [bs EXCEPT ![i].idle = @ \ {cell}, ![i].busy = @ \cup {cell}]
             back == Returned(popped, i, cell)
  <2>1. \/ buckets' \in {queued, back} /\ UNCHANGED <<tokens, gone, unfenced>>
        \/ /\ buckets' = popped
           /\ \/ /\ tokens' = tokens \cup {[cell |-> cell, id |-> bs[i].id, graph |-> bs[i].graph, busy |-> TRUE]}
                 /\ UNCHANGED <<gone, unfenced>>
              \/ /\ \E pending \in BOOLEAN : Leak(cell, bs[i].id, bs[i].graph, pending)
                 /\ UNCHANGED tokens
    BY <1>4 DEF Detach
  <2>2. bs \in Seq(Bucket) /\ i \in DOMAIN bs
    BY <1>2 DEF Ready
  <2> HIDE DEF bs
  <2>3. /\ LanesSet(bs, popped, i, bs[i].idle \ {cell}, bs[i].busy \ {cell}, bs[i].detached + 1)
        /\ LanesSet(bs, queued, i, bs[i].idle \ {cell}, bs[i].busy \cup {cell}, bs[i].detached)
        /\ LanesSet(bs, back, i, (bs[i].idle \ {cell}) \cup {cell}, bs[i].busy \ {cell}, bs[i].detached)
    BY <2>2, PoppedLane
  <2> HIDE DEF popped, queued, back
  <2>4. CASE buckets' \in {queued, back} /\ UNCHANGED <<tokens, gone, unfenced>>
    <3>1. \/ LanesSet(bs, buckets', i, bs[i].idle \ {cell}, bs[i].busy \cup {cell}, bs[i].detached)
          \/ LanesSet(bs, buckets', i, (bs[i].idle \ {cell}) \cup {cell}, bs[i].busy \ {cell}, bs[i].detached)
      BY <2>3, <2>4
    <3> QED
      BY <1>1, <1>2, <2>4, <3>1, BackStep
  <2>5. CASE buckets' = popped
    <3>1. LanesSet(bs, buckets', i, bs[i].idle \ {cell}, bs[i].busy \ {cell}, bs[i].detached + 1)
      BY <2>3, <2>5
    <3>2. CASE /\ tokens' = tokens \cup {[cell |-> cell, id |-> bs[i].id, graph |-> bs[i].graph, busy |-> TRUE]}
               /\ UNCHANGED <<gone, unfenced>>
      BY <1>1, <1>2, <3>1, <3>2, PoppedStep
    <3>3. CASE /\ \E pending \in BOOLEAN : Leak(cell, bs[i].id, bs[i].graph, pending)
               /\ UNCHANGED tokens
      BY <1>1, <1>2, <3>1, <3>3, PoppedStep
    <3>4. CASE buckets' \in {queued, back} /\ UNCHANGED <<tokens, gone, unfenced>>
      BY <2>4, <3>4
    <3> QED
      BY <2>1, <3>2, <3>3, <3>4
  <2> QED
    BY <2>1, <2>4, <2>5
<1> QED
  BY <1>3, <1>4 DEF enqueue_prepared

(***************************************************************************)
(* Tables that a call leaves                                               *)
(***************************************************************************)
\* What a call has made of the tables, before the new bucket is in them.
Settled(t) ==
    /\ TableType(t.buckets, t.lru, t.slots, t.free)
    /\ TableInv(t.buckets, t.slots, t.free)
    /\ IssuedInv(t.buckets, t.slots, t.free, issued)
    /\ LanesInv(t.buckets, tokens, {}, gone)
    /\ HomeInv(t.buckets, tokens)
    /\ GraphInv(t.buckets, tokens, gone, next_graph, released, unfenced)
    /\ PlanInv(t.buckets)
    /\ \A i \in DOMAIN t.buckets : \E j \in DOMAIN buckets :
          t.buckets[i].id = buckets[j].id /\ t.buckets[i].key = buckets[j].key

LEMMA ReclaimedSettles ==
  ASSUME NEW bs, Ready(bs)
  PROVE  Settled(Tables(bs))
<1>1. /\ Tables(bs).buckets = bs /\ Tables(bs).lru = lru
      /\ Tables(bs).slots = prepared_slots /\ Tables(bs).free = free_prepared_slots
  BY DEF Tables
<1> QED
  BY <1>1 DEF Settled, Ready, SameBuckets

LEMMA RetiredSettles ==
  ASSUME NEW bs, Ready(bs), NEW i \in DOMAIN bs, bs[i].detached = 0
  PROVE  /\ Settled(Retired(Tables(bs), i))
         /\ OneLess(bs, Retired(Tables(bs), i).buckets, i)
         /\ Len(Retired(Tables(bs), i).buckets) = Len(bs) - 1
<1> DEFINE t == Retired(Tables(bs), i)
<1>1. /\ TableType(bs, lru, prepared_slots, free_prepared_slots)
      /\ TableInv(bs, prepared_slots, free_prepared_slots)
      /\ IssuedInv(bs, prepared_slots, free_prepared_slots, issued)
      /\ LanesInv(bs, tokens, {}, gone) /\ HomeInv(bs, tokens) /\ bs \in Seq(Bucket)
      /\ GraphInv(bs, tokens, gone, next_graph, released, unfenced) /\ PlanInv(bs)
  BY DEF Ready
<1>2. /\ TableType(t.buckets, t.lru, t.slots, t.free)
      /\ TableInv(t.buckets, t.slots, t.free)
      /\ IssuedInv(t.buckets, t.slots, t.free, issued)
      /\ Len(t.buckets) = Len(bs) - 1
      /\ OneLess(bs, t.buckets, i)
  BY <1>1, RetiredTables
<1> HIDE DEF t
<1>3. \A r \in tokens : r.id # bs[i].id
  BY <1>1, NoneOut
<1>4. /\ LanesInv(t.buckets, tokens, {}, gone)
      /\ HomeInv(t.buckets, tokens)
      /\ GraphInv(t.buckets, tokens, gone, next_graph, released, unfenced)
      /\ PlanInv(t.buckets)
  BY <1>1, <1>2, <1>3, FewerBuckets
<1>5. ASSUME NEW j \in DOMAIN t.buckets
      PROVE  \E k \in DOMAIN buckets : t.buckets[j].id = buckets[k].id /\ t.buckets[j].key = buckets[k].key
  <2>1. PICK k \in DOMAIN bs : t.buckets[j] = bs[k]
    BY <1>2 DEF OneLess
  <2> QED
    BY <2>1 DEF Ready, SameBuckets
<1>6. Settled(t)
  BY <1>2, <1>4, <1>5 DEF Settled
<1> QED
  BY <1>2, <1>6 DEF t

\* A call that ends with these tables, and may have used or lost graphs.
LEMMA SettledStep ==
  ASSUME IInv, NEW t, Settled(t), SetTables(t), recovered' = {},
         UNCHANGED <<issued, shape_plan, tokens, gone>>,
         GraphInv(t.buckets, tokens, gone, next_graph', released', unfenced')
  PROVE  Kept
<1>1. buckets' = t.buckets /\ lru' = t.lru /\ prepared_slots' = t.slots /\ free_prepared_slots' = t.free
  BY DEF SetTables
<1>2. PlanInv(buckets)'
  BY <1>1 DEF Settled, PlanInv
<1>3. TablesInv'
  BY <1>1, <1>2 DEF Settled, TablesInv
<1>4. FreshIds
  BY <1>1 DEF Settled, FreshIds
<1>5. LaneTypes'
  BY DEF IInv, LaneTypes
<1>6. LanesInv(buckets', tokens', recovered', gone')
  BY <1>1 DEF Settled
<1>7. HomeInv(buckets', tokens' \cup recovered')
  BY <1>1 DEF Settled, HomeInv
<1>8. GraphInv(buckets', tokens', gone', next_graph', released', unfenced')
  BY <1>1
<1> QED
  BY <1>3, <1>4, <1>5, <1>6, <1>7, <1>8 DEF Kept

\* Graphs that nothing replays are released.
LEMMA GraphsReleased ==
  ASSUME NEW bs, NEW toks, NEW gn, NEW g, NEW rel, NEW unf, GraphInv(bs, toks, gn, g, rel, unf),
         NEW H, H \subseteq 1..g, H \cap unf = {},
         \A i \in DOMAIN bs : bs[i].graph \notin H, \A r \in toks : r.graph \notin H
  PROVE  GraphInv(bs, toks, gn, g, rel \cup H, unf)
BY DEF GraphInv

\* Nothing replays the graph of a bucket without detached lanes once the bucket is gone.
LEMMA GraphIsQuiet ==
  ASSUME NEW bs, Ready(bs), NEW i \in DOMAIN bs, bs[i].detached = 0, bs[i].graph # None
  PROVE  /\ bs[i].graph \in 1..next_graph /\ bs[i].graph \notin released
         /\ bs[i].graph \notin unfenced
         /\ \A r \in tokens : r.graph # bs[i].graph
         /\ \A j \in DOMAIN bs : bs[j].graph = bs[i].graph => j = i
<1>1. /\ GraphInv(bs, tokens, gone, next_graph, released, unfenced) /\ HomeInv(bs, tokens)
      /\ bs \in Seq(Bucket) /\ LanesInv(bs, tokens, {}, gone)
  BY DEF Ready
<1>2. \A r \in tokens \cup gone : r.id # bs[i].id
  BY <1>1, NoneOut
<1>3. \A j \in DOMAIN bs : bs[j].graph = bs[i].graph => j = i
  BY <1>1 DEF GraphInv
<1>4. ASSUME NEW r \in tokens PROVE r.graph # bs[i].graph
  <2>1. PICK k \in DOMAIN bs : bs[k].id = r.id
    BY <1>1 DEF HomeInv
  <2>2. bs[k].graph = r.graph
    BY <1>1, <2>1 DEF GraphInv
  <2> QED
    BY <1>2, <1>3, <2>1, <2>2
<1>5. bs[i].graph \in 1..next_graph /\ bs[i].graph \notin released /\ bs[i].graph \notin unfenced
  BY <1>1, <1>2 DEF GraphInv
<1> QED
  BY <1>3, <1>4, <1>5

LEMMA RemoveKeeps ==
  ASSUME IInv, NEW k \in Keys, remove_bucket(k)
  PROVE  IInv' /\ FreshIds
<1> DEFINE bs == Reclaimed
           t == Tables(bs)
<1>1. /\ alive /\ recovered' = {}
      /\ UNCHANGED <<cuda_graph, shape_plan, next_graph, tokens, gone, issued, alive>>
  BY DEF remove_bucket
<1>2. Ready(bs)
  BY <1>1, ReclaimedReady
<1>3. PICK i \in DOMAIN buckets :
          \/ /\ SetTables(t)
             /\ UNCHANGED <<retired, released, unfenced>>
          \/ /\ bs[i].detached = 0
             /\ SetTables(Retired(t, i))
             /\ \/ /\ bs[i].graph # None
                   /\ released' = released \cup {bs[i].graph}
                   /\ retired' = retired \cup {[graph |-> bs[i].graph, done |-> FALSE]}
                   /\ UNCHANGED unfenced
                \/ UNCHANGED <<retired, released, unfenced>>
                \/ /\ bs[i].graph # None
                   /\ unfenced' = unfenced \cup {bs[i].graph}
                   /\ UNCHANGED <<retired, released>>
  BY DEF remove_bucket
<1> HIDE DEF bs
<1>4. i \in DOMAIN bs /\ GraphInv(bs, tokens, gone, next_graph, released, unfenced) /\ bs[i] \in Bucket
  BY <1>2 DEF Ready
<1>5. retired' \subseteq [graph : Graphs, done : BOOLEAN]
  <2>1. retired \subseteq [graph : Graphs, done : BOOLEAN]
    BY DEF IInv, RestTypes
  <2>2. CASE UNCHANGED retired
    BY <2>1, <2>2
  <2>3. CASE bs[i].graph # None /\ retired' = retired \cup {[graph |-> bs[i].graph, done |-> FALSE]}
    <3>1. bs[i].graph \in Graphs
      BY <1>4, <2>3 DEF Bucket
    <3>2. [graph |-> bs[i].graph, done |-> FALSE] \in [graph : Graphs, done : BOOLEAN]
      BY <3>1
    <3> QED
      BY <2>1, <2>3, <3>2
  <2> QED
    BY <1>3, <2>2, <2>3
<1>6. RestTypes'
  BY <1>1, <1>5 DEF IInv, RestTypes
<1> SUFFICES Kept
  BY <1>6, KeptIs
<1>7. CASE SetTables(t) /\ UNCHANGED <<retired, released, unfenced>>
  <2>1. Settled(t)
    BY <1>2, ReclaimedSettles
  <2>2. GraphInv(t.buckets, tokens, gone, next_graph', released', unfenced')
    BY <1>1, <1>7, <2>1 DEF Settled
  <2> QED
    BY <1>1, <1>7, <2>1, <2>2, SettledStep
<1>8. CASE /\ bs[i].detached = 0
           /\ SetTables(Retired(t, i))
           /\ \/ /\ bs[i].graph # None
                 /\ released' = released \cup {bs[i].graph}
                 /\ UNCHANGED unfenced
              \/ UNCHANGED <<released, unfenced>>
              \/ /\ bs[i].graph # None
                 /\ unfenced' = unfenced \cup {bs[i].graph}
                 /\ UNCHANGED released
  <2> DEFINE u == Retired(t, i)
             h == bs[i].graph
  <2>1. Settled(u) /\ OneLess(bs, u.buckets, i)
    BY <1>2, <1>4, <1>8, RetiredSettles
  <2> HIDE DEF t, u
  <2>2. GraphInv(u.buckets, tokens, gone, next_graph, released, unfenced)
    BY <2>1 DEF Settled
  <2>3. ASSUME h # None
        PROVE  /\ h \in 1..next_graph /\ h \notin released /\ h \notin unfenced
               /\ \A r \in tokens : r.graph # h
               /\ \A j \in DOMAIN u.buckets : u.buckets[j].graph # h
    <3>1. /\ h \in 1..next_graph /\ h \notin released /\ h \notin unfenced
          /\ \A r \in tokens : r.graph # h
          /\ \A j \in DOMAIN bs : bs[j].graph = h => j = i
      BY <1>2, <1>4, <1>8, <2>3, GraphIsQuiet
    <3>2. \A j \in DOMAIN u.buckets : \E l \in DOMAIN bs \ {i} : u.buckets[j] = bs[l]
      BY <2>1 DEF OneLess
    <3> QED
      BY <3>1, <3>2
  <2>4. GraphInv(u.buckets, tokens, gone, next_graph', released', unfenced')
    <3>1. CASE h # None /\ released' = released \cup {h} /\ UNCHANGED unfenced
      <4>1. {h} \subseteq 1..next_graph /\ {h} \cap unfenced = {}
        BY <2>3, <3>1
      <4>2. /\ \A r \in tokens : r.graph \notin {h}
            /\ \A j \in DOMAIN u.buckets : u.buckets[j].graph \notin {h}
        BY <2>3, <3>1
      <4>3. GraphInv(u.buckets, tokens, gone, next_graph, released \cup {h}, unfenced)
        BY <2>2, <4>1, <4>2, GraphsReleased
      <4> QED
        BY <1>1, <3>1, <4>3
    <3>2. CASE UNCHANGED <<released, unfenced>>
      BY <1>1, <2>2, <3>2
    <3>3. CASE h # None /\ unfenced' = unfenced \cup {h} /\ UNCHANGED released
      <4>1. GraphInv(u.buckets, tokens, gone, next_graph, released, unfenced \cup {h})
        BY <2>2, <2>3, <3>3, GraphLeaks
      <4> QED
        BY <1>1, <3>3, <4>1
    <3> QED
      BY <1>8, <3>1, <3>2, <3>3
  <2>5. SetTables(u)
    BY <1>8 DEF u
  <2> QED
    BY <1>1, <2>1, <2>4, <2>5, SettledStep
<1> QED
  BY <1>3, <1>7, <1>8

(***************************************************************************)
(* Emptying the cache                                                      *)
(***************************************************************************)
LEMMA DrainStep ==
  ASSUME IInv, alive, NEW bs, Ready(bs), Drain(bs), recovered' = {},
         UNCHANGED <<shape_plan, next_graph, tokens, gone, issued>>,
         alive' => Evictable(bs) = DOMAIN bs
  PROVE  Kept /\ buckets' = <<>>
<1>1. /\ TableType(bs, lru, prepared_slots, free_prepared_slots)
      /\ TableInv(bs, prepared_slots, free_prepared_slots)
      /\ IssuedInv(bs, prepared_slots, free_prepared_slots, issued)
      /\ LanesInv(bs, tokens, {}, gone) /\ HomeInv(bs, tokens) /\ bs \in Seq(Bucket)
      /\ GraphInv(bs, tokens, gone, next_graph, released, unfenced) /\ PlanInv(bs)
  BY DEF Ready
<1>2. /\ buckets' = <<>>
      /\ TableType(buckets', lru', prepared_slots', free_prepared_slots')
      /\ TableInv(buckets', prepared_slots', free_prepared_slots')
      /\ IssuedInv(buckets', prepared_slots', free_prepared_slots', issued)
  BY <1>1, DrainedTables
<1>3. PlanInv(buckets)'
  BY <1>1, <1>2 DEF PlanInv
<1>4. TablesInv'
  BY <1>2, <1>3 DEF TablesInv
<1>5. FreshIds /\ LanesInv(buckets', tokens', recovered', gone')
  BY <1>2 DEF FreshIds, LanesInv
<1>6. LaneTypes'
  BY DEF IInv, LaneTypes
<1>7. alive' => HomeInv(buckets', tokens' \cup recovered')
  <2> SUFFICES ASSUME alive' PROVE tokens = {}
    BY DEF HomeInv
  <2>1. \A i \in DOMAIN bs : bs[i].detached = 0
    BY DEF Evictable
  <2> SUFFICES ASSUME NEW r \in tokens PROVE FALSE
    OBVIOUS
  <2>2. PICK i \in DOMAIN bs : bs[i].id = r.id
    BY <1>1 DEF HomeInv
  <2> QED
    BY <1>1, <2>1, <2>2, NoneOut
<1>8. GraphInv(buckets', tokens', gone', next_graph', released', unfenced')
  <2> DEFINE graphs(I) == {bs[i].graph : i \in I} \ {None}
  <2>1. PICK leaked \in SUBSET (DOMAIN bs) :
           /\ unfenced' = unfenced \cup graphs(leaked)
           /\ released' = released \cup graphs(Evictable(bs) \ leaked)
    BY DEF Drain
  <2> DEFINE H == graphs(Evictable(bs) \ leaked)
             L == graphs(leaked)
  <2>2. \A h \in H : \E i \in DOMAIN bs : /\ i \notin leaked /\ bs[i].detached = 0
                                          /\ h = bs[i].graph /\ h # None
    BY DEF Evictable
  <2>3. \A h \in L : \E i \in leaked : h = bs[i].graph /\ h # None
    OBVIOUS
  <2> HIDE DEF H, L
  <2>4. ASSUME NEW h \in H
        PROVE  /\ h \in 1..next_graph /\ h \notin unfenced /\ h \notin L
               /\ \A r \in tokens : r.graph # h
    <3>1. PICK i \in DOMAIN bs : i \notin leaked /\ bs[i].detached = 0 /\ h = bs[i].graph /\ h # None
      BY <2>2
    <3>2. /\ h \in 1..next_graph /\ h \notin unfenced
          /\ \A r \in tokens : r.graph # h
          /\ \A j \in DOMAIN bs : bs[j].graph = h => j = i
      BY <3>1, GraphIsQuiet
    <3>3. h \notin L
      BY <2>3, <3>1, <3>2
    <3> QED
      BY <3>2, <3>3
  <2>5. \A h \in L : h \in 1..next_graph /\ h \notin released
    BY <1>1, <2>3 DEF GraphInv
  <2>6. unfenced' = unfenced \cup L /\ released' = released \cup H
    BY <2>1 DEF H, L
  <2>7. /\ released \subseteq 1..next_graph /\ unfenced \subseteq 1..next_graph
        /\ released \cap unfenced = {}
        /\ \A r \in tokens : r.graph # None => r.graph \in 1..next_graph /\ r.graph \notin released
    BY <1>1 DEF GraphInv
  <2>8. /\ released' \subseteq 1..next_graph /\ unfenced' \subseteq 1..next_graph
        /\ released' \cap unfenced' = {}
    BY <2>4, <2>5, <2>6, <2>7
  <2>9. \A r \in tokens : r.graph # None => r.graph \in 1..next_graph /\ r.graph \notin released'
    BY <2>4, <2>6, <2>7
  <2> QED
    BY <1>2, <2>8, <2>9 DEF GraphInv
<1> QED
  BY <1>2, <1>4, <1>5, <1>6, <1>7, <1>8 DEF Kept

LEMMA ClearKeeps ==
  ASSUME IInv, clear_buckets
  PROVE  IInv' /\ FreshIds
<1> DEFINE bs == Reclaimed
<1>1. /\ alive /\ recovered' = {}
      /\ UNCHANGED <<cuda_graph, shape_plan, next_graph, tokens, gone, issued, alive>>
  BY DEF clear_buckets
<1>2. Ready(bs)
  BY <1>1, ReclaimedReady
<1>3. RestTypes'
  BY <1>1 DEF IInv, RestTypes, clear_buckets
<1> SUFFICES Kept
  BY <1>3, KeptIs
<1>4. \/ SetTables(Tables(bs)) /\ UNCHANGED <<retired, released, unfenced>>
      \/ Evictable(bs) = DOMAIN buckets /\ Drain(bs)
  BY DEF clear_buckets
<1> HIDE DEF bs
<1>5. CASE SetTables(Tables(bs)) /\ UNCHANGED <<retired, released, unfenced>>
  <2>1. Settled(Tables(bs))
    BY <1>2, ReclaimedSettles
  <2>2. GraphInv(Tables(bs).buckets, tokens, gone, next_graph', released', unfenced')
    BY <1>1, <1>5, <2>1 DEF Settled
  <2> QED
    BY <1>1, <1>5, <2>1, <2>2, SettledStep
<1>6. CASE Evictable(bs) = DOMAIN buckets /\ Drain(bs)
  <2>1. Evictable(bs) = DOMAIN bs
    BY <1>2, <1>6 DEF Ready
  <2> QED
    BY <1>1, <1>2, <1>6, <2>1, DrainStep
<1> QED
  BY <1>4, <1>5, <1>6

LEMMA RuntimeDropKeeps ==
  ASSUME IInv, drop
  PROVE  IInv' /\ FreshIds
<1> DEFINE bs == Reclaimed
<1>1. /\ alive /\ alive' = FALSE /\ recovered' = {} /\ retired' = {} /\ Drain(bs)
      /\ UNCHANGED <<cuda_graph, shape_plan, next_graph, tokens, gone, issued>>
  BY DEF drop
<1>2. Ready(bs)
  BY <1>1, ReclaimedReady
<1> HIDE DEF bs
<1>3. Kept /\ buckets' = <<>>
  BY <1>1, <1>2, DrainStep
<1>4. RestTypes'
  <2>1. cuda_graph' \in BOOLEAN /\ alive' \in BOOLEAN
    BY <1>1 DEF IInv, RestTypes
  <2>2. /\ shape_plan' \subseteq SUBSET Keys /\ next_graph' \in 0..MaxGraphs
        /\ retired' \subseteq [graph : Graphs, done : BOOLEAN]
    BY <1>1 DEF IInv, RestTypes
  <2> QED
    BY <1>3, <2>1, <2>2 DEF RestTypes
<1> QED
  BY <1>3, <1>4, KeptIs

(***************************************************************************)
(* get_or_create_bucket                                                    *)
(***************************************************************************)
\* evict_one_bucket_if_full makes room and takes the bucket of no owned run.
LEMMA RoomSettles ==
  ASSUME NEW bs, Ready(bs), CanMakeRoom(bs)
  PROVE  Settled(WithRoom(Tables(bs))) /\ Len(WithRoom(Tables(bs)).buckets) < MaxBuckets
<1>1. Tables(bs).buckets = bs
  BY DEF Tables
<1>2. /\ bs \in Seq(Bucket) /\ Len(bs) <= MaxBuckets /\ MaxBuckets \in Nat /\ Len(bs) \in Nat
      /\ TableType(bs, lru, prepared_slots, free_prepared_slots)
  BY BoundsAssumption DEF Ready, TableType
<1>3. CASE Len(bs) < MaxBuckets
  <2>1. WithRoom(Tables(bs)) = Tables(bs)
    BY <1>1, <1>3 DEF WithRoom
  <2> QED
    BY <1>1, <1>3, <2>1, ReclaimedSettles
<1>4. CASE ~(Len(bs) < MaxBuckets)
  <2> DEFINE i == Oldest(bs)
  <2>1. i \in Evictable(bs)
    BY <1>2, <1>4, OldestIs DEF CanMakeRoom
  <2> HIDE DEF i
  <2>2. i \in DOMAIN bs /\ bs[i].detached = 0
    BY <2>1 DEF Evictable
  <2>3. WithRoom(Tables(bs)) = Retired(Tables(bs), i)
    BY <1>1, <1>4 DEF WithRoom, i
  <2>4. Settled(Retired(Tables(bs), i)) /\ Len(Retired(Tables(bs), i).buckets) = Len(bs) - 1
    BY <2>2, RetiredSettles
  <2> QED
    BY <1>2, <2>3, <2>4
<1> QED
  BY <1>3, <1>4

\* A graph number is used.
LEMMA GraphNumbered ==
  ASSUME NEW bs, NEW toks, NEW gn, NEW g \in Nat, NEW rel, NEW unf, GraphInv(bs, toks, gn, g, rel, unf)
  PROVE  /\ GraphInv(bs, toks, gn, g + 1, rel, unf)
         /\ GraphInv(bs, toks, gn, g + 1, rel, unf \cup {g + 1})
<1>1. 1..g \subseteq 1..(g + 1) /\ g + 1 \notin 1..g /\ g + 1 \in 1..(g + 1)
  OBVIOUS
<1>2. GraphInv(bs, toks, gn, g + 1, rel, unf)
  BY <1>1 DEF GraphInv
<1>3. ASSUME NEW i \in DOMAIN bs, bs[i].graph = g + 1 PROVE FALSE
  <2>1. None # g + 1
    BY NoneAssumption
  <2> QED
    BY <1>1, <1>3, <2>1 DEF GraphInv
<1>4. g + 1 \notin rel
  BY <1>1 DEF GraphInv
<1> HIDE DEF GraphInv
<1>5. GraphInv(bs, toks, gn, g + 1, rel, unf \cup {g + 1})
  BY <1>1, <1>2, <1>3, <1>4, GraphLeaks
<1> QED
  BY <1>2, <1>5

LEMMA CreateFailsKeeps ==
  ASSUME IInv, NEW t, Settled(t), CreateFails(t), recovered' = {},
         UNCHANGED <<shape_plan, tokens, gone, released>>
  PROVE  Kept /\ next_graph' \in 0..MaxGraphs
<1>1. next_graph \in 0..MaxGraphs /\ next_graph \in Nat /\ MaxGraphs \in Nat
  BY BoundsAssumption DEF IInv, RestTypes
<1>2. GraphInv(t.buckets, tokens, gone, next_graph, released, unfenced)
  BY DEF Settled
<1>3. GraphInv(t.buckets, tokens, gone, next_graph', released', unfenced')
  <2>1. /\ GraphInv(t.buckets, tokens, gone, next_graph + 1, released, unfenced)
        /\ GraphInv(t.buckets, tokens, gone, next_graph + 1, released, unfenced \cup {next_graph + 1})
    BY <1>1, <1>2, GraphNumbered
  <2>2. CASE UNCHANGED <<next_graph, unfenced>>
    BY <1>2, <2>2
  <2>3. CASE /\ next_graph' = next_graph + 1
             /\ unfenced' = unfenced \/ unfenced' = unfenced \cup {next_graph + 1}
    BY <2>1, <2>3
  <2> QED
    BY <2>2, <2>3 DEF CreateFails
<1>4. Kept
  BY <1>3, SettledStep DEF CreateFails
<1>5. next_graph' \in 0..MaxGraphs
  BY <1>1 DEF CreateFails
<1> QED
  BY <1>4, <1>5

\* Every lane of a new bucket is idle, and none of its id is out.
LEMMA NewLanes ==
  ASSUME IInv, NEW nb, nb.id \in Ids, nb.id \notin issued,
         nb.idle = CellsOf(nb.id.slot), nb.busy = {}, nb.detached = 0
  PROVE  LaneInv(nb, tokens, {}, gone) /\ \A r \in tokens : r.id # nb.id
<1>1. \A r \in tokens : r.id # nb.id
  BY DEF IInv, LaneTypes
<1>2. \A r \in gone : r.id # nb.id
  BY DEF IInv, LaneTypes
<1>3. CellsIn(tokens, nb.id) = {} /\ CellsIn({}, nb.id) = {} /\ CellsIn(gone, nb.id) = {}
  BY <1>1, <1>2 DEF CellsIn
<1>4. Out(nb.id, tokens, {}, gone) = {}
  BY <1>3 DEF Out
<1>5. Cardinality({}) = 0
  BY FS_EmptySet
<1> QED
  BY <1>1, <1>3, <1>4, <1>5 DEF LaneInv

LEMMA CreateSucceedsKeeps ==
  ASSUME IInv, NEW t, Settled(t), Len(t.buckets) < MaxBuckets, NEW k \in Keys,
         \A i \in DOMAIN t.buckets : t.buckets[i].key # k, Permitted(k),
         CreateSucceeds(t, k), recovered' = {},
         UNCHANGED <<shape_plan, tokens, gone, released>>
  PROVE  Kept /\ next_graph' \in 0..MaxGraphs
<1> DEFINE g == NewGraph
           u == Created(t, k, g)
           nb == NewBucket(t, k, g)
           bs == t.buckets
           cs == Append(bs, nb)
           n == Len(bs) + 1
<1>1. /\ next_graph \in 0..MaxGraphs /\ next_graph \in Nat /\ MaxGraphs \in Nat
      /\ cuda_graph \in BOOLEAN
  BY BoundsAssumption DEF IInv, RestTypes
<1>2. /\ CanAllocate(t) /\ SetTables(u) /\ issued' = issued \cup {Allocated(t).id}
      /\ UNCHANGED unfenced
  BY DEF CreateSucceeds
<1>3. \/ g = None /\ next_graph' = next_graph
      \/ g = next_graph + 1 /\ next_graph' = next_graph + 1 /\ next_graph < MaxGraphs
  BY <1>1 DEF CreateSucceeds, NewGraph
<1>4. next_graph' \in 0..MaxGraphs
  BY <1>1, <1>3
<1>5. g \in Graphs \cup {None}
  BY <1>1, <1>3 DEF Graphs
<1> HIDE DEF g
<1>6. /\ TableType(bs, t.lru, t.slots, t.free) /\ TableInv(bs, t.slots, t.free)
      /\ IssuedInv(bs, t.slots, t.free, issued)
      /\ LanesInv(bs, tokens, {}, gone) /\ HomeInv(bs, tokens)
      /\ GraphInv(bs, tokens, gone, next_graph, released, unfenced) /\ PlanInv(bs)
      /\ \A i \in DOMAIN bs : \E j \in DOMAIN buckets : bs[i].id = buckets[j].id
  BY DEF Settled
<1>7. /\ TableType(u.buckets, u.lru, u.slots, u.free)
      /\ TableInv(u.buckets, u.slots, u.free)
      /\ IssuedInv(u.buckets, u.slots, u.free, issued \cup {Allocated(t).id})
      /\ u.buckets = cs /\ nb \in Bucket /\ Allocated(t).id \notin issued
  BY <1>2, <1>5, <1>6, CreatedTables
<1>8. /\ nb.key = k /\ nb.id = Allocated(t).id /\ nb.graph = g
      /\ nb.idle = CellsOf(nb.id.slot) /\ nb.busy = {} /\ nb.detached = 0
  BY DEF NewBucket
<1>9. /\ buckets' = u.buckets /\ lru' = u.lru /\ prepared_slots' = u.slots
      /\ free_prepared_slots' = u.free
  BY <1>2 DEF SetTables
<1>10. bs \in Seq(Bucket)
  BY <1>6 DEF TableType
<1> HIDE DEF u, nb, bs
<1>11. /\ DOMAIN bs = 1..Len(bs) /\ Len(bs) \in Nat /\ DOMAIN cs = 1..(Len(bs) + 1)
       /\ \A i \in DOMAIN bs : cs[i] = bs[i]
       /\ cs[n] = nb
  BY <1>7, <1>10, AppendIs
<1>12. DOMAIN cs = DOMAIN bs \cup {n} /\ n \notin DOMAIN bs /\ buckets' = cs
  BY <1>7, <1>9, <1>11
<1> HIDE DEF cs, n
<1>13. PlanInv(buckets)'
  <2> SUFFICES ASSUME NEW p \in shape_plan
               PROVE  shape_plan = {p} /\ Cardinality(p) <= MaxBuckets /\ \A i \in DOMAIN cs : cs[i].key \in p
    BY <1>12 DEF PlanInv
  <2>1. shape_plan = {p} /\ Cardinality(p) <= MaxBuckets /\ \A i \in DOMAIN bs : bs[i].key \in p
    BY <1>6 DEF PlanInv
  <2>2. k \in p
    BY <2>1 DEF Permitted
  <2> QED
    BY <1>8, <1>11, <1>12, <2>1, <2>2
<1>14. TablesInv'
  BY <1>2, <1>7, <1>9, <1>13 DEF TablesInv
<1>15. FreshIds
  BY <1>6, <1>7, <1>8, <1>11, <1>12 DEF FreshIds
<1>16. LaneTypes'
  <2>1. issued \subseteq issued'
    BY <1>2
  <2> QED
    BY <2>1 DEF IInv, LaneTypes
<1>17. nb.id \in Ids
  BY <1>7 DEF Bucket
<1>18. LaneInv(nb, tokens, {}, gone) /\ \A r \in tokens : r.id # nb.id
  BY <1>7, <1>8, <1>17, NewLanes
<1>19. LanesInv(buckets', tokens', recovered', gone')
  BY <1>6, <1>11, <1>12, <1>18 DEF LanesInv
<1>20. HomeInv(buckets', tokens' \cup recovered')
  BY <1>6, <1>11, <1>12 DEF HomeInv
<1>21. GraphInv(buckets', tokens', gone', next_graph', released', unfenced')
  <2>1. GraphInv(bs, tokens, gone, next_graph', released, unfenced)
    <3>1. GraphInv(bs, tokens, gone, next_graph + 1, released, unfenced)
      BY <1>1, <1>6, GraphNumbered
    <3> QED
      BY <1>3, <1>6, <3>1
  <2>2. g # None => /\ g \in 1..next_graph' /\ g \notin released /\ g \notin unfenced
                    /\ \A i \in DOMAIN bs : bs[i].graph # g
    <3>1. CASE g = None
      BY <3>1
    <3>2. CASE g = next_graph + 1 /\ next_graph' = next_graph + 1
      <4>1. g \in 1..next_graph' /\ g \notin 1..next_graph /\ g # None
        BY <1>1, <3>2, NoneAssumption
      <4> QED
        BY <1>6, <4>1 DEF GraphInv
    <3> QED
      BY <1>3, <3>1, <3>2
  <2>3. ASSUME NEW i \in DOMAIN cs, cs[i].graph # None
        PROVE  /\ cs[i].graph \in 1..next_graph'
               /\ cs[i].graph \notin released
               /\ cs[i].graph \in unfenced => \E r \in gone : r.id = cs[i].id
               /\ \A j \in DOMAIN cs : cs[j].graph = cs[i].graph => j = i
    <3>1. CASE i = n
      BY <1>8, <1>11, <1>12, <2>2, <2>3, <3>1
    <3>2. CASE i \in DOMAIN bs
      <4>1. cs[i] = bs[i] /\ bs[i].graph # g
        BY <1>11, <2>2, <2>3, <3>2
      <4>2. \A j \in DOMAIN bs : bs[j].graph = bs[i].graph => j = i
        BY <2>1, <2>3, <3>2, <4>1 DEF GraphInv
      <4>3. \A j \in DOMAIN cs : cs[j].graph = cs[i].graph => j = i
        BY <1>8, <1>11, <1>12, <4>1, <4>2
      <4>4. /\ bs[i].graph \in 1..next_graph'
            /\ bs[i].graph \notin released
            /\ bs[i].graph \in unfenced => \E r \in gone : r.id = bs[i].id
        BY <2>1, <2>3, <3>2, <4>1 DEF GraphInv
      <4> QED
        BY <4>1, <4>3, <4>4
    <3> QED
      BY <1>12, <3>1, <3>2
  <2>4. \A r \in tokens, i \in DOMAIN cs : cs[i].id = r.id => cs[i].graph = r.graph
    <3>1. \A r \in tokens, i \in DOMAIN bs : bs[i].id = r.id => bs[i].graph = r.graph
      BY <2>1 DEF GraphInv
    <3> QED
      BY <1>11, <1>12, <1>18, <3>1
  <2>5. GraphInv(cs, tokens, gone, next_graph', released, unfenced)
    BY <2>1, <2>3, <2>4 DEF GraphInv
  <2> QED
    BY <1>2, <1>12, <2>5
<1> QED
  BY <1>4, <1>14, <1>15, <1>16, <1>19, <1>20, <1>21 DEF Kept

LEMMA GetOrCreateKeeps ==
  ASSUME IInv, NEW k \in Keys, NEW allow_create \in BOOLEAN, get_or_create_bucket(k, allow_create)
  PROVE  IInv' /\ FreshIds
<1> DEFINE bs == Reclaimed
           t == WithRoom(Tables(bs))
           hit == \E i \in DOMAIN bs : bs[i].key = k
<1>1. /\ alive /\ recovered' = {}
      /\ UNCHANGED <<cuda_graph, shape_plan, released, tokens, gone, alive>>
  BY DEF get_or_create_bucket
<1>2. Ready(bs)
  BY <1>1, ReclaimedReady
<1>3. \/ SetTables(Tables(bs)) /\ UNCHANGED <<next_graph, unfenced, issued>>
      \/ /\ hit
         /\ SetTables([Tables(bs) EXCEPT !.lru = Append(Without(lru, k), k)])
         /\ UNCHANGED <<next_graph, unfenced, issued>>
      \/ ~hit /\ Permitted(k) /\ CanMakeRoom(bs) /\ (CreateSucceeds(t, k) \/ CreateFails(t))
  BY DEF get_or_create_bucket, Refused
<1> HIDE DEF bs
<1>4. retired' \subseteq [graph : Graphs, done : BOOLEAN]
  BY DEF IInv, RestTypes, get_or_create_bucket
<1> SUFFICES Kept /\ next_graph' \in 0..MaxGraphs
  <2>1. next_graph' \in 0..MaxGraphs => RestTypes'
    BY <1>1, <1>4 DEF IInv, RestTypes
  <2> QED
    BY <2>1, KeptIs
<1>5. next_graph \in 0..MaxGraphs
  BY DEF IInv, RestTypes
<1>6. CASE SetTables(Tables(bs)) /\ UNCHANGED <<next_graph, unfenced, issued>>
  <2>1. Settled(Tables(bs))
    BY <1>2, ReclaimedSettles
  <2>2. GraphInv(Tables(bs).buckets, tokens, gone, next_graph', released', unfenced')
    BY <1>1, <1>6, <2>1 DEF Settled
  <2> QED
    BY <1>1, <1>5, <1>6, <2>1, <2>2, SettledStep
<1>7. CASE /\ hit
           /\ SetTables([Tables(bs) EXCEPT !.lru = Append(Without(lru, k), k)])
           /\ UNCHANGED <<next_graph, unfenced, issued>>
  <2>1. /\ buckets' = bs /\ lru' = Append(Without(lru, k), k)
        /\ prepared_slots' = prepared_slots /\ free_prepared_slots' = free_prepared_slots
    BY <1>7 DEF SetTables, Tables
  <2>2. PICK i \in DOMAIN bs : bs[i].key = k
    BY <1>7
  <2>3. i \in DOMAIN buckets /\ buckets[i].key = k
    BY <1>2, <2>2 DEF Ready, SameBuckets
  <2>4. lru' \in Seq(Keys) /\ \A x : Occurs(x, lru) => Occurs(x, lru')
    BY <2>1, <2>3, TouchedHere
  <2>5. buckets' = Reclaimed
    BY <2>1 DEF bs
  <2> QED
    BY <1>1, <1>5, <1>7, <2>1, <2>4, <2>5, ReclaimStep DEF Kept, slotVars
<1>8. CASE ~hit /\ Permitted(k) /\ CanMakeRoom(bs) /\ (CreateSucceeds(t, k) \/ CreateFails(t))
  <2>1. Settled(t) /\ Len(t.buckets) < MaxBuckets
    BY <1>2, <1>8, RoomSettles
  <2>2. \A i \in DOMAIN t.buckets : t.buckets[i].key # k
    <3> HIDE DEF t
    <3>1. \A j \in DOMAIN buckets : buckets[j].key # k
      BY <1>2, <1>8 DEF Ready, SameBuckets
    <3> QED
      BY <2>1, <3>1 DEF Settled
  <2> HIDE DEF t
  <2>3. CASE CreateSucceeds(t, k)
    BY <1>1, <1>8, <2>1, <2>2, <2>3, CreateSucceedsKeeps
  <2>4. CASE CreateFails(t)
    BY <1>1, <2>1, <2>4, CreateFailsKeeps
  <2> QED
    BY <1>8, <2>3, <2>4
<1> QED
  BY <1>3, <1>6, <1>7, <1>8

(***************************************************************************)
(* The theorems                                                            *)
(***************************************************************************)
LEMMA NextIInv == IInv /\ [Next]_vars => IInv' /\ FreshIds
<1> SUFFICES ASSUME IInv, [Next]_vars PROVE IInv' /\ FreshIds
  OBVIOUS
<1>1. ASSUME NEW p \in SUBSET Keys \ {{}}, install_shape_plan(p) PROVE IInv' /\ FreshIds
  BY <1>1, InstallKeeps
<1>2. ASSUME NEW k \in Keys, NEW allow_create \in BOOLEAN, get_or_create_bucket(k, allow_create)
      PROVE  IInv' /\ FreshIds
  BY <1>2, GetOrCreateKeeps
<1>3. ASSUME NEW k \in Keys, NEW cell \in 1..(MaxSlots * LaneCount), run_on(k, cell)
      PROVE  IInv' /\ FreshIds
  BY <1>3, RunOnKeeps
<1>4. ASSUME NEW k \in Keys, remove_bucket(k) PROVE IInv' /\ FreshIds
  BY <1>4, RemoveKeeps
<1>5. ASSUME NEW id \in issued, enqueue_prepared(id) PROVE IInv' /\ FreshIds
  BY <1>5, EnqueueKeeps
<1>6. ASSUME NEW r \in retired, ReleaseDone(r) PROVE IInv' /\ FreshIds
  BY <1>6, ReleaseDoneKeeps
<1>7. ASSUME NEW r \in tokens, token_settles(r) PROVE IInv' /\ FreshIds
  BY <1>7, SettlesKeeps
<1>8. ASSUME NEW r \in tokens, token_drop(r) PROVE IInv' /\ FreshIds
  BY <1>8, DropKeeps
<1>9. ASSUME NEW r \in tokens, complete_owned(r) PROVE IInv' /\ FreshIds
  BY <1>9, CompleteKeeps
<1>10. CASE clear_buckets
  BY <1>10, ClearKeeps
<1>11. CASE drop
  BY <1>11, RuntimeDropKeeps
<1>12. CASE UNCHANGED vars
  BY <1>12, StutterKeeps
<1> QED
  BY <1>1, <1>2, <1>3, <1>4, <1>5, <1>6, <1>7, <1>8, <1>9, <1>10, <1>11, <1>12 DEF Next

\* The inductive invariant holds throughout.
THEOREM RuntimeInvariant == Spec => []IInv
BY InitIInv, NextIInv, PTL DEF Spec

\* The tables, counts and sets of the runtime keep their types in every behaviour.
THEOREM RuntimeTypeOK == Spec => []TypeOK
<1>1. IInv => TypeOK
  <2> SUFFICES ASSUME IInv PROVE TypeOK
    OBVIOUS
  <2>1. /\ buckets \in Seq([key : Keys, id : Ids, graph : Graphs \cup {None}, idle : SUBSET Nat,
                            busy : SUBSET Nat, detached : Nat])
        /\ Len(buckets) <= MaxBuckets /\ lru \in Seq(Keys)
        /\ prepared_slots \in Seq([generation : 1..MaxGeneration, index : Nat \cup {None}])
        /\ free_prepared_slots \in Seq(1..MaxSlots)
    BY DEF IInv, TableType, Bucket, Slot
  <2>2. issued \subseteq Ids
    BY DEF IInv, IssuedInv
  <2>3. /\ tokens \subseteq [cell : Nat, id : Ids, graph : Graphs \cup {None}, busy : BOOLEAN]
        /\ recovered \subseteq [cell : Nat, id : Ids] /\ gone \subseteq [cell : Nat, id : Ids]
    BY <2>2 DEF IInv, LaneTypes
  <2>4. released \subseteq Graphs /\ unfenced \subseteq Graphs
    <3>1. next_graph \in 0..MaxGraphs /\ MaxGraphs \in Nat
      BY BoundsAssumption DEF IInv, RestTypes
    <3>2. 1..next_graph \subseteq Graphs
      BY <3>1 DEF Graphs
    <3> QED
      BY <3>2 DEF IInv, GraphInv
  <2>5. /\ cuda_graph \in BOOLEAN /\ alive \in BOOLEAN
        /\ shape_plan \subseteq SUBSET Keys /\ next_graph \in 0..MaxGraphs
        /\ retired \subseteq [graph : Graphs, done : BOOLEAN]
    BY DEF IInv, RestTypes
  <2> QED
    BY <2>1, <2>2, <2>3, <2>4, <2>5 DEF TypeOK
<1> QED
  BY <1>1, RuntimeInvariant, PTL

\* After any sequence of creations, evictions, removals and recycled slots, the slot
\* table of runtime.rs finds every cached bucket by its id and no other, no shape is
\* cached twice, and the free list holds each reusable slot once.
THEOREM RuntimeSlotTableIsExact == Spec => []SlotTableIsExact
<1>1. IInv => SlotTableIsExact
  <2> SUFFICES ASSUME IInv PROVE SlotTableIsExact
    OBVIOUS
  <2>1. \A i \in DOMAIN buckets : prepared_bucket_index(buckets[i].id) = i
    BY IndexIs
  <2>2. TableInv(buckets, prepared_slots, free_prepared_slots)
    BY DEF IInv
  <2> QED
    BY <2>1, <2>2 DEF SlotTableIsExact, TableInv
<1> QED
  BY <1>1, RuntimeInvariant, PTL

\* While the runtime lives, no eviction, removal or clear takes the bucket away from an
\* OwnedDynamicIoRun or from a lane that waits in its recovery cell.
THEOREM RuntimeOwnedRunsKeepTheirBucket == Spec => []OwnedRunsKeepTheirBucket
<1>1. IInv => OwnedRunsKeepTheirBucket
  <2> SUFFICES ASSUME IInv, alive, NEW r \in tokens \cup recovered
               PROVE  prepared_bucket_index(r.id) # None
    BY DEF OwnedRunsKeepTheirBucket
  <2>1. \E i \in DOMAIN buckets : buckets[i].id = r.id
    BY DEF IInv, HomeInv
  <2> QED
    BY <2>1, IndexIs
<1> QED
  BY <1>1, RuntimeInvariant, PTL

\* A graph that the provider was asked to release is not replayed any more: no bucket
\* and no token has it, and no work of it leaked without a fence.
THEOREM RuntimeReleasedGraphIsQuiet == Spec => []ReleasedGraphIsQuiet
<1>1. IInv => ReleasedGraphIsQuiet
  <2> SUFFICES ASSUME IInv, NEW g \in released
               PROVE  /\ g \notin unfenced
                      /\ \A r \in tokens : r.graph # g
                      /\ \A i \in DOMAIN buckets : buckets[i].graph # g
    BY DEF ReleasedGraphIsQuiet
  <2>1. GraphInv(buckets, tokens, gone, next_graph, released, unfenced)
    BY DEF IInv
  <2>2. g # None
    <3>1. next_graph \in Nat
      BY BoundsAssumption DEF IInv, RestTypes
    <3>2. g \in Nat
      BY <2>1, <3>1 DEF GraphInv
    <3> QED
      BY <3>2, NoneAssumption
  <2> QED
    BY <2>1, <2>2 DEF GraphInv
<1> QED
  BY <1>1, RuntimeInvariant, PTL

\* allocate_prepared_bucket_id never gives an id for the second time, also when the
\* generations of a slot run out.
THEOREM RuntimeIdsAreNeverReissued == Spec => IdsAreNeverReissued
<1>1. IInv /\ [Next]_vars =>
        [\A i \in DOMAIN buckets' :
            (\A j \in DOMAIN buckets : buckets[j].id # buckets'[i].id) => buckets'[i].id \notin issued]_vars
  BY NextIInv DEF FreshIds
<1> QED
  BY <1>1, RuntimeInvariant, PTL DEF Spec, IdsAreNeverReissued

\* As many lanes as cells, when no two lanes of the id have the same cell.
LEMMA CountOfCells ==
  ASSUME NEW S, NEW id, IsFiniteSet(CellsIn(S, id)),
         \A r, q \in S : r.id = id /\ q.id = id /\ r.cell = q.cell => r = q
  PROVE  Cardinality({r \in S : r.id = id}) = Cardinality(CellsIn(S, id))
<1> DEFINE X == {r \in S : r.id = id}
           Y == CellsIn(S, id)
           f == [r \in X |-> r.cell]
<1>1. f \in [X -> Y]
  BY DEF CellsIn
<1>2. \A a, b \in X : f[a] = f[b] => a = b
  OBVIOUS
<1>3. \A y \in Y : \E a \in X : f[a] = y
  BY DEF CellsIn
<1> HIDE DEF X, Y, f
<1>4. f \in Injection(X, Y) /\ f \in Surjection(X, Y)
  BY <1>1, <1>2, <1>3, Fun_IsInj, Fun_IsSurj
<1>5. IsFiniteSet(Y)
  BY DEF Y
<1>6. Cardinality(X) = Cardinality(Y)
  BY <1>4, <1>5, FS_Injection
<1> QED
  BY <1>6 DEF X, Y

LEMMA DisjointCount ==
  ASSUME NEW X, NEW Y, NEW Z, IsFiniteSet(X \cup Y \cup Z),
         X \cap Y = {}, X \cap Z = {}, Y \cap Z = {}
  PROVE  Cardinality(X \cup Y \cup Z) = Cardinality(X) + Cardinality(Y) + Cardinality(Z)
<1>1. IsFiniteSet(X) /\ IsFiniteSet(Y) /\ IsFiniteSet(Z)
  BY FS_Subset
<1>2. Cardinality({}) = 0
  BY FS_EmptySet
<1>3. ASSUME NEW S, NEW U, IsFiniteSet(S), IsFiniteSet(U), S \cap U = {}
      PROVE  IsFiniteSet(S \cup U) /\ Cardinality(S \cup U) = Cardinality(S) + Cardinality(U)
  <2>1. Cardinality(S \cup U) = Cardinality(S) + Cardinality(U) - Cardinality(S \cap U)
    BY <1>3, FS_Union
  <2>2. Cardinality(S \cap U) = 0
    BY <1>2, <1>3
  <2>3. Cardinality(S) \in Nat /\ Cardinality(U) \in Nat
    BY <1>3, FS_CardinalityType
  <2>4. IsFiniteSet(S \cup U)
    BY <1>3, FS_Union
  <2> QED
    BY <2>1, <2>2, <2>3, <2>4
<1> DEFINE W == X \cup Y
<1>4. IsFiniteSet(W) /\ Cardinality(W) = Cardinality(X) + Cardinality(Y)
  BY <1>1, <1>3
<1>5. W \cap Z = {}
  OBVIOUS
<1> HIDE DEF W
<1>6. Cardinality(W \cup Z) = Cardinality(W) + Cardinality(Z)
  BY <1>1, <1>3, <1>4, <1>5
<1> QED
  BY <1>4, <1>6 DEF W

\* Every lane of a cached bucket is in exactly one place (idle or in flight in the
\* bucket, with a token, in its recovery cell, or leaked), and the count of detached
\* lanes, which decides what may be evicted, removed and cleared, is exact.
THEOREM RuntimeLanesAreConserved == Spec => []LanesAreConserved
<1>1. IInv => LanesAreConserved
  <2> SUFFICES ASSUME IInv, NEW i \in DOMAIN buckets
               PROVE  LET b == buckets[i]
                      IN  /\ b.idle \cup b.busy \cup CellsOutOf(b.id) = CellsOf(b.id.slot)
                          /\ b.idle \cap b.busy = {}
                          /\ (b.idle \cup b.busy) \cap CellsOutOf(b.id) = {}
                          /\ b.detached = Cardinality(CellsOutOf(b.id))
                          /\ b.detached = Cardinality({r \in tokens : r.id = b.id}) +
                                          Cardinality({r \in recovered : r.id = b.id}) +
                                          Cardinality({r \in gone : r.id = b.id})
    BY DEF LanesAreConserved
  <2> DEFINE b == buckets[i]
             T == CellsIn(tokens, b.id)
             R == CellsIn(recovered, b.id)
             G == CellsIn(gone, b.id)
  <2>1. b \in Bucket /\ LaneInv(b, tokens, recovered, gone)
    BY DEF IInv, LanesInv, TableType
  <2> HIDE DEF b
  <2>2. CellsOutOf(b.id) = Out(b.id, tokens, recovered, gone) /\ CellsOutOf(b.id) = T \cup R \cup G
    BY DEF CellsOutOf, Out, CellsIn
  <2>3. /\ b.idle \cup b.busy \cup CellsOutOf(b.id) = CellsOf(b.id.slot)
        /\ b.idle \cap b.busy = {}
        /\ (b.idle \cup b.busy) \cap CellsOutOf(b.id) = {}
        /\ b.detached = Cardinality(CellsOutOf(b.id))
        /\ T \cap R = {} /\ T \cap G = {} /\ R \cap G = {}
    BY <2>1, <2>2 DEF LaneInv
  <2>4. IsFiniteSet(T \cup R \cup G)
    BY <2>1, <2>2, OutIsFinite
  <2>5. IsFiniteSet(T) /\ IsFiniteSet(R) /\ IsFiniteSet(G)
    <3> HIDE DEF T, R, G
    <3> QED
      BY <2>4, FS_Subset
  <2>6. Cardinality({r \in tokens : r.id = b.id}) = Cardinality(T)
    <3>1. \A r, q \in tokens : r.id = b.id /\ q.id = b.id /\ r.cell = q.cell => r = q
      BY <2>1 DEF LaneInv
    <3> QED
      BY <2>5, <3>1, CountOfCells
  <2>7. ASSUME NEW S \in SUBSET [cell : Nat, id : issued], IsFiniteSet(CellsIn(S, b.id))
        PROVE  Cardinality({r \in S : r.id = b.id}) = Cardinality(CellsIn(S, b.id))
    <3>1. \A r, q \in S : r.id = b.id /\ q.id = b.id /\ r.cell = q.cell => r = q
      OBVIOUS
    <3> QED
      BY <2>7, <3>1, CountOfCells
  <2>8. recovered \in SUBSET [cell : Nat, id : issued] /\ gone \in SUBSET [cell : Nat, id : issued]
    BY DEF IInv, LaneTypes
  <2>9. Cardinality({r \in recovered : r.id = b.id}) = Cardinality(R)
    BY <2>5, <2>7, <2>8
  <2>10. Cardinality({r \in gone : r.id = b.id}) = Cardinality(G)
    BY <2>5, <2>7, <2>8
  <2>11. Cardinality(T \cup R \cup G) = Cardinality(T) + Cardinality(R) + Cardinality(G)
    <3> HIDE DEF T, R, G
    <3> QED
      BY <2>3, <2>4, DisjointCount
  <2> HIDE DEF T, R, G
  <2>12. b.detached = Cardinality({r \in tokens : r.id = b.id}) +
                      Cardinality({r \in recovered : r.id = b.id}) +
                      Cardinality({r \in gone : r.id = b.id})
    BY <2>2, <2>3, <2>6, <2>9, <2>10, <2>11
  <2> QED
    BY <2>3, <2>12 DEF b
<1> QED
  BY <1>1, RuntimeInvariant, PTL

\* Planned shapes have room: while a planned shape is not cached, the cache is not full.
LEMMA PlanHasRoom ==
  ASSUME IInv, shape_plan # {}, NEW k, Permitted(k), \A i \in DOMAIN buckets : buckets[i].key # k
  PROVE  Len(buckets) < MaxBuckets
<1>1. PICK p \in shape_plan : TRUE
  OBVIOUS
<1>2. shape_plan = {p} /\ Cardinality(p) <= MaxBuckets /\ \A i \in DOMAIN buckets : buckets[i].key \in p
  BY DEF IInv, PlanInv
<1>3. k \in p
  BY <1>2 DEF Permitted
<1>4. p \in SUBSET Keys
  BY <1>1 DEF IInv, RestTypes
<1>5. IsFiniteSet(p) /\ Cardinality(p) \in Nat
  BY <1>4, KeysAssumption, FS_Subset, FS_CardinalityType
<1>6. buckets \in Seq(Bucket) /\ DOMAIN buckets = 1..Len(buckets) /\ Len(buckets) \in Nat
  BY DEF IInv, TableType
<1> DEFINE f == [i \in 1..Len(buckets) |-> buckets[i].key]
           Q == p \ {k}
<1>7. f \in Injection(1..Len(buckets), Q)
  <2>1. f \in [1..Len(buckets) -> Q]
    BY <1>2, <1>6
  <2>2. \A i, j \in 1..Len(buckets) : f[i] = f[j] => i = j
    BY <1>6 DEF IInv, TableInv
  <2> HIDE DEF f, Q
  <2> QED
    BY <2>1, <2>2, Fun_IsInj
<1>8. IsFiniteSet(Q) /\ Cardinality(Q) = Cardinality(p) - 1
  BY <1>3, <1>5, FS_RemoveElement
<1> HIDE DEF f, Q
<1>9. Cardinality(1..Len(buckets)) <= Cardinality(Q)
  BY <1>7, <1>8, FS_Injection
<1>10. ASSUME NEW n \in Nat PROVE Cardinality(1..n) = n
  BY FS_Interval
<1>11. MaxBuckets \in Nat
  BY BoundsAssumption
<1> QED
  BY <1>2, <1>5, <1>6, <1>8, <1>9, <1>10, <1>11

\* While a shape plan is installed, get_or_create_bucket never evicts a shape, whatever
\* fails after the victim would have been chosen: the plan fits the cache.
THEOREM RuntimePlannedShapesAreNeverEvicted == Spec => PlannedShapesAreNeverEvicted
<1> DEFINE NoEviction ==
      shape_plan # {} =>
          \/ CachedShapes \subseteq CachedShapes'
          \/ ~\E k \in Keys, create \in BOOLEAN : get_or_create_bucket(k, create)
<1>1. ASSUME IInv, shape_plan # {}, NEW k \in Keys, NEW create \in BOOLEAN,
             get_or_create_bucket(k, create)
      PROVE  CachedShapes \subseteq CachedShapes'
  <2> DEFINE bs == Reclaimed
             hit == \E i \in DOMAIN bs : bs[i].key = k
             t == WithRoom(Tables(bs))
  <2>1. Ready(bs)
    BY <1>1, ReclaimedReady DEF get_or_create_bucket
  <2>2. \/ buckets' = bs
        \/ ~hit /\ Permitted(k) /\ (CreateSucceeds(t, k) \/ CreateFails(t))
    BY <1>1 DEF get_or_create_bucket, SetTables, Tables
  <2> HIDE DEF bs
  <2>3. bs \in Seq(Bucket) /\ DOMAIN bs = DOMAIN buckets /\ SameBuckets(buckets, bs)
    BY <2>1 DEF Ready
  <2>4. \A i \in DOMAIN buckets : buckets[i].key = bs[i].key
    BY <2>3 DEF SameBuckets
  <2>5. CASE buckets' = bs
    BY <2>3, <2>4, <2>5 DEF CachedShapes
  <2>6. CASE ~hit /\ Permitted(k) /\ (CreateSucceeds(t, k) \/ CreateFails(t))
    <3>1. Len(buckets) < MaxBuckets
      BY <1>1, <2>3, <2>4, <2>6, PlanHasRoom
    <3>2. Len(bs) < MaxBuckets /\ Tables(bs).buckets = bs
      BY <2>3, <3>1 DEF SameBuckets, Tables
    <3>3. t = Tables(bs)
      BY <3>2 DEF WithRoom
    <3>4. CASE CreateFails(t)
      <4>1. buckets' = bs
        BY <3>2, <3>3, <3>4 DEF CreateFails, SetTables
      <4> QED
        BY <2>5, <4>1
    <3>5. CASE CreateSucceeds(t, k)
      <4>1. PICK nb : buckets' = Append(bs, nb)
        BY <3>2, <3>3, <3>5 DEF CreateSucceeds, SetTables, Created
      <4>2. \A i \in DOMAIN bs : i \in DOMAIN buckets' /\ buckets'[i] = bs[i]
        BY <2>3, <4>1
      <4> QED
        BY <2>3, <2>4, <4>2 DEF CachedShapes
    <3> QED
      BY <2>6, <3>4, <3>5
  <2> QED
    BY <2>2, <2>5, <2>6
<1>2. IInv => NoEviction
  BY <1>1
<1>3. IInv => [NoEviction]_vars
  BY <1>2
<1> QED
  BY <1>3, RuntimeInvariant, PTL DEF PlannedShapesAreNeverEvicted
=============================================================================
