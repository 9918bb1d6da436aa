-------------------------- MODULE ServingShapePlan --------------------------
(***************************************************************************)
(* The sealed plan of serving shapes (shape_plan.rs): a builder collects   *)
(* canonical shapes, build validates and indexes them by hash, classify    *)
(* maps the input shapes of a request to a bucket of the plan.  A shape is *)
(* a sequence of dimensions, a request one shape per input.  The hash is   *)
(* the code's own FNV over 64 bits, of which the model keeps the low       *)
(* HashBits: they depend on no higher bit, and they collide.               *)
(***************************************************************************)
EXTENDS Integers, Sequences, FiniteSets, SequencesExt

CONSTANTS Entries,       \* what add_shape is called with: inputs, outputs and policy
          Requests,      \* input shapes of requests
          Fallbacks,     \* fallback policies; a padding ratio is the fraction num / den
          MaxShapes,     \* calls of add_shape (model bound)
          ElementLimit,  \* u128::MAX in the code
          HashBits       \* 64 in the code
ASSUME PlanAssumption == MaxShapes \in Nat \ {0} /\ ElementLimit \in Nat /\ HashBits \in Nat \ {0}
PlanEntries == [inputs : Seq(Seq(Int)), outputs : Seq(Seq(Int)), policy : {"host", "device", "pinned"}]
ASSUME ShapesAssumption == Entries \subseteq PlanEntries /\ Requests \subseteq Seq(Seq(Int))

VARIABLES builder,       \* the ServingShapePlanBuilder
          plan,          \* the plan that was built, shared by the runtimes
          serving        \* whether this behaviour serves a built plan (see ServingTopology)

planVars == <<builder, plan, serving>>

Strict == [kind |-> "strict", num |-> 0, den |-> 1]
NewBuilder == [shapes |-> <<>>, fallback |-> Strict]
NoPlan == [buckets |-> <<>>, fallback |-> Strict, index |-> <<>>]

PlanInit == builder = NewBuilder /\ plan = NoPlan /\ serving = FALSE

(***************************************************************************)
(* Hash, equality and element counts                                       *)
(***************************************************************************)
OFFSET == 37
PRIME == 435

\* The exclusive or of two words, bit by bit.
Bit(x, k) == (x \div 2 ^ k) % 2
Xor(x, y) ==
    LET low[k \in 0..HashBits] ==
            IF k = 0 THEN 0
            ELSE low[k - 1] + IF Bit(x, k - 1) = Bit(y, k - 1) THEN 0 ELSE 2 ^ (k - 1)
    IN  low[HashBits]

\* ShapeHash::from_slices: the number of shapes, then each length and dimension.
from_slices(shapes) ==
    LET w == 2 ^ HashBits
        Mix(hash, x) == (Xor(hash % w, x % w) * PRIME) % w
        Words(shape) == <<Len(shape)>> \o shape
    IN  FoldLeft(Mix, OFFSET, <<Len(shapes)>> \o FlattenSeq([i \in DOMAIN shapes |-> Words(shapes[i])]))

shapes_equal(canonical, requested) ==
    /\ Len(canonical) = Len(requested)
    /\ \A i \in DOMAIN canonical : canonical[i] = requested[i]

\* checked_mul and checked_add; an overflow stays one.
Overflow == -1
Checked(n) == IF n > ElementLimit THEN Overflow ELSE n
CheckedMul(n, d) == IF n = Overflow THEN Overflow ELSE Checked(n * d)
CheckedAdd(n, c) == IF Overflow \in {n, c} THEN Overflow ELSE Checked(n + c)

CheckedProduct(shape) ==
    LET count[k \in 0..Len(shape)] == IF k = 0 THEN 1 ELSE CheckedMul(count[k - 1], shape[k])
    IN  count[Len(shape)]

ElementCount(shapes) ==
    LET total[k \in 0..Len(shapes)] ==
            IF k = 0 THEN 0 ELSE CheckedAdd(total[k - 1], CheckedProduct(shapes[k]))
    IN  total[Len(shapes)]

\* A dimension that is not positive, an overflow and an empty sum have no count.
requested_element_count(shapes) ==
    IF \E i \in DOMAIN shapes : \E j \in DOMAIN shapes[i] : shapes[i][j] <= 0 THEN {}
    ELSE {ElementCount(shapes)} \ {Overflow, 0}

\* The element counts of a request and of a bucket it fits into, or none.
fitting_element_counts(requested, canonical) ==
    IF /\ Len(requested) = Len(canonical)
       /\ \A i \in DOMAIN requested :
             /\ Len(requested[i]) = Len(canonical[i])
             /\ \A j \in DOMAIN requested[i] :
                   requested[i][j] > 0 /\ canonical[i][j] >= requested[i][j]
       /\ Overflow \notin {ElementCount(requested), ElementCount(canonical)}
    THEN {[requested |-> ElementCount(requested), canonical |-> ElementCount(canonical)]}
    ELSE {}

(***************************************************************************)
(* The plan                                                                *)
(***************************************************************************)
Found(id) == [id |-> id]
Fails(error) == [error |-> error]

\* The tuple comparison (waste, total) < (best_waste, best_total).
IsBetter(best, b) ==
    best = {} \/ \A x \in best : b.waste < x.waste \/ (b.waste = x.waste /\ b.total < x.total)

\* A bucket that the request fits into, or none.
Candidate(p, requested, id) ==
    {[waste |-> c.canonical - c.requested, total |-> c.canonical, id |-> id] :
        c \in fitting_element_counts(requested, p.buckets[id].inputs)}

\* The best of the first k buckets, which are looked at in order.
BestOf(p, requested) ==
    LET best[k \in 0..Len(p.buckets)] ==
            IF k = 0 THEN {}
            ELSE IF \E b \in Candidate(p, requested, k) : IsBetter(best[k - 1], b)
                 THEN Candidate(p, requested, k) ELSE best[k - 1]
    IN  best[Len(p.buckets)]

classify_padded(p, requested) ==
    LET best == BestOf(p, requested)
    IN  IF best = {} \/ requested_element_count(requested) = {} THEN Fails("NoFittingShape")
        ELSE LET b == CHOOSE x \in best : TRUE
                 n == CHOOSE x \in requested_element_count(requested) : TRUE
             IN  IF b.waste * p.fallback.den > p.fallback.num * n
                 THEN Fails("PaddingWasteExceeded") ELSE Found(b.id)

\* The ids that the index has under a hash, and the first of some ids.
candidates(p, hash) == {id \in DOMAIN p.index : p.index[id] = hash}
First(ids) == CHOOSE id \in ids : \A other \in ids : id <= other

\* Mutant: the first shape with the hash of the request is taken for it.
ClassifyByHash(p, requested) ==
    LET ids == candidates(p, from_slices(requested))
    IN  IF ids # {} THEN Found(First(ids))
        ELSE IF p.fallback.kind = "pad" THEN classify_padded(p, requested) ELSE Fails("NotInPlan")

\* The candidates of the hash are compared in full before the policy applies.
classify(p, requested) ==
    LET equal == {id \in candidates(p, from_slices(requested)) :
                     shapes_equal(p.buckets[id].inputs, requested)}
    IN  IF equal # {} THEN Found(First(equal))
        ELSE IF p.fallback.kind = "pad" THEN classify_padded(p, requested) ELSE Fails("NotInPlan")

(***************************************************************************)
(* The builder                                                             *)
(***************************************************************************)
fallback_policy(f) ==
    /\ builder' = [builder EXCEPT !.fallback = f]
    /\ UNCHANGED <<plan, serving>>

add_shape(e) ==
    /\ Len(builder.shapes) < MaxShapes
    /\ builder' = [builder EXCEPT !.shapes = Append(@, e)]
    /\ UNCHANGED <<plan, serving>>

validate_shapes(e) ==
    /\ e.inputs # <<>>
    /\ \A shapes \in {e.inputs, e.outputs} :
          \A i \in DOMAIN shapes : \A j \in DOMAIN shapes[i] : shapes[i][j] > 0

\* The hash index: the hash under which each id is found.
IndexOf(buckets) == [id \in DOMAIN buckets |-> from_slices(buckets[id].inputs)]

\* No error of build: a plan has shapes, a finite ratio, valid shapes, none twice.
Builds(b) ==
    /\ b.shapes # <<>>
    /\ b.fallback.kind = "pad" => b.fallback.num >= 0 /\ b.fallback.den # 0
    /\ \A i \in DOMAIN b.shapes : validate_shapes(b.shapes[i])
    /\ \A i, j \in DOMAIN b.shapes : b.shapes[i].inputs = b.shapes[j].inputs => i = j

PlanOf(b) == [buckets |-> b.shapes, fallback |-> b.fallback, index |-> IndexOf(b.shapes)]

\* build takes the builder, also when it fails.
build ==
    /\ builder' = NewBuilder
    /\ plan' = IF Builds(builder) THEN PlanOf(builder) ELSE plan
    /\ UNCHANGED serving

\* The plan is immutable; one is built.
PlanNext ==
    /\ ~serving /\ plan = NoPlan
    /\ (\E f \in Fallbacks : fallback_policy(f)) \/ (\E e \in Entries : add_shape(e)) \/ build

(***************************************************************************)
(* Properties                                                              *)
(***************************************************************************)
ElementsOf(shape) ==
    LET product[k \in 0..Len(shape)] == IF k = 0 THEN 1 ELSE product[k - 1] * shape[k]
    IN  product[Len(shape)]

Elements(shapes) ==
    LET sum[k \in 0..Len(shapes)] == IF k = 0 THEN 0 ELSE sum[k - 1] + ElementsOf(shapes[k])
    IN  sum[Len(shapes)]

\* The buckets that hold a request in every dimension and can be counted.
Holding(p, r) ==
    {i \in DOMAIN p.buckets :
        LET c == p.buckets[i].inputs
        IN  /\ [k \in DOMAIN c |-> Len(c[k])] = [k \in DOMAIN r |-> Len(r[k])]
            /\ \A k \in DOMAIN r : \A d \in DOMAIN r[k] : r[k][d] \in 1..c[k][d]
            /\ Elements(c) <= ElementLimit}

\* What classify is for: the bucket of exactly this shape; else, if the policy pads,
\* the smallest bucket that holds it, the first of several, within the ratio.
Nearest(p, r) ==
    LET same == {i \in DOMAIN p.buckets : p.buckets[i].inputs = r}
        Size(i) == Elements(p.buckets[i].inputs)
        best == {i \in Holding(p, r) :
                    \A j \in Holding(p, r) : Size(i) < Size(j) \/ (Size(i) = Size(j) /\ i <= j)}
    IN  IF same # {} THEN Found(CHOOSE i \in same : TRUE)
        ELSE IF p.fallback.kind # "pad" THEN Fails("NotInPlan")
        ELSE IF best = {} THEN Fails("NoFittingShape")
        ELSE LET i == CHOOSE x \in best : TRUE
             IN  IF (Size(i) - Elements(r)) * p.fallback.den > p.fallback.num * Elements(r)
                 THEN Fails("PaddingWasteExceeded") ELSE Found(i)

\* classify answers the bucket or the error that the plan promises, whatever hashes
\* collide, whichever buckets tie or overflow the count, and in whatever order shapes
\* came; also for the plan that runtimes serve from.
ClassifyIsBest == plan # NoPlan => \A r \in Requests : classify(plan, r) = Nearest(plan, r)
=============================================================================
