------------------------------ MODULE Cr3Cache ------------------------------
(***************************************************************************)
(* The CR3-target cache of a vCPU (vmx.c): it counts the address spaces    *)
(* the guest switches to and names the busiest in the VMCS, whose loads    *)
(* then no longer exit.                                                    *)
(*                                                                         *)
(* One exit is one action.  Time only breaks ties, so last_seen_ns is the  *)
(* order of the slots by it.  CR3 values are numbers; 0 marks a free slot. *)
(***************************************************************************)
EXTENDS Integers, Sequences, FiniteSets

CONSTANTS
    Cr3s,        \* values the guest loads, 0 possibly among them
    CacheSize,   \* RELM_CR3_CACHE_SIZE
    MaxTargets,  \* RELM_CR3_MAX_TARGETS
    Threshold,   \* RELM_CR3_PROMOTE_THRESHOLD
    MaxHits      \* bound on hit_count

ASSUME CacheAssumption ==
    /\ Cr3s \subseteq Nat /\ MaxTargets \in Nat /\ CacheSize \in Nat /\ CacheSize > MaxTargets
    /\ MaxHits \in Nat /\ Threshold \in 2 .. MaxHits

VARIABLES
    cand,      \* candidates: value, hits and promoted of each slot
    seen,      \* the place of each slot in the order by last_seen_ns, 0 before its first
    ncand,     \* candidate_count
    npromoted, \* promoted_count
    targets,   \* CR3_TARGET_VALUEn of the VMCS
    count,     \* CR3_TARGET_COUNT
    dropped,   \* history: the "BUG" message was reached
    failed     \* history: a VMWRITE has failed

cacheVars == <<cand, seen, ncand, npromoted, targets, count, dropped, failed>>

Slots == 1 .. CacheSize
Values == Cr3s \cup {0}

\* Type invariant. Candidates, targets and counts stay within the table.
CacheTypeOK ==
    /\ cand \in [Slots -> [value : Values, hits : 0 .. MaxHits, promoted : BOOLEAN]]
    /\ seen \in [Slots -> 0 .. CacheSize] /\ ncand \in 0 .. CacheSize
    /\ npromoted \in 0 .. MaxTargets /\ count \in 0 .. MaxTargets
    /\ targets \in [1 .. MaxTargets -> Values] /\ {dropped, failed} \subseteq BOOLEAN

CacheInit ==
    /\ cand = [k \in Slots |-> [value |-> 0, hits |-> 0, promoted |-> FALSE]]
    /\ seen = [k \in Slots |-> 0] /\ ncand = 0 /\ npromoted = 0
    /\ targets = [k \in 1 .. MaxTargets |-> 0] /\ count = 0
    /\ dropped = FALSE /\ failed = FALSE

----------------------------------------------------------------------------
Smallest(s) == CHOOSE x \in s : \A y \in s : x <= y

\* Slot k becomes the one seen last; those seen after it move up.
Touch(k) ==
    [j \in Slots |-> IF j = k THEN Cardinality({s \in Slots : seen[s] # 0} \cup {k})
                     ELSE IF seen[k] # 0 /\ seen[j] > seen[k] THEN seen[j] - 1 ELSE seen[j]]

\* Slot k comes before slot j: more hits, or as many and seen later.
Busier(c, order, k, j) ==
    \/ c[k].hits > c[j].hits
    \/ c[k].hits = c[j].hits /\ order[k] > order[j]

Valid(c, n) == {k \in Slots : k <= n /\ c[k].value # 0 /\ c[k].hits # 0}
Passes(c, n) == Smallest({Cardinality(Valid(c, n)), MaxTargets})

\* Mutant: the slots are taken in table order.
Selected_Mut(c, order, n) ==
    [p \in 1 .. Passes(c, n) |->
        CHOOSE k \in Valid(c, n) : Cardinality({j \in Valid(c, n) : j < k}) = p - 1]

\* relm_cr3_cache_policy_frequency: each pass picks the busiest slot of the
\* first n that is left (what lies past the table is not modelled; see
\* CountIsPopulation).
Selected(c, order, n) ==
    [p \in 1 .. Passes(c, n) |->
        CHOOSE k \in Valid(c, n) : Cardinality({j \in Valid(c, n) : Busier(c, order, j, k)}) = p - 1]

Promote(c, s) == [k \in Slots |-> [c[k] EXCEPT !.promoted = k \in s]]

\* relm_cr3_cache_apply on candidates c: nothing when the set is the same;
\* otherwise the values, the count, then the marks.  A failed VMWRITE leaves
\* the values written before it, no target counted and nothing promoted.
relm_cr3_cache_apply(c, order, n) ==
    LET new == Selected(c, order, n)
        chosen == {new[p] : p \in DOMAIN new}
        same == Len(new) = npromoted /\ \A k \in chosen : c[k].promoted
        written(m) == [k \in 1 .. MaxTargets |-> IF k <= m THEN c[new[k]].value ELSE targets[k]]
    IN  \/ same /\ cand' = c /\ UNCHANGED <<targets, count, npromoted, failed>>
        \/ /\ ~same
           /\ cand' = Promote(c, chosen) /\ targets' = written(Len(new))
           /\ count' = Len(new) /\ npromoted' = Len(new)
           /\ UNCHANGED failed
        \/ /\ ~same /\ failed' = TRUE
           /\ cand' = Promote(c, {})
           /\ \E m \in 0 .. Len(new) : targets' = written(m)
           /\ count' = 0 /\ npromoted' = 0

\* relm_cr3_cache_record.  Value 0 is found in the first free slot.
Hit(k) ==
    LET c == [cand EXCEPT ![k].hits = @ + 1]
    IN  /\ cand[k].hits < MaxHits
        /\ seen' = Touch(k)
        /\ IF c[k].hits >= Threshold /\ ~c[k].promoted
           THEN relm_cr3_cache_apply(c, seen', ncand)
           ELSE cand' = c /\ UNCHANGED <<npromoted, targets, count, failed>>
        /\ UNCHANGED <<ncand, dropped>>

Fill(k, v) ==
    /\ cand' = [cand EXCEPT ![k] = [value |-> v, hits |-> 1, promoted |-> FALSE]]
    /\ seen' = Touch(k)

\* Mutant: promoted slots may be evicted.
Evictable_MutAny == {k \in Slots : TRUE}

Evictable == {k \in Slots : ~cand[k].promoted}

Miss(v) ==
    LET free == {k \in Slots : cand[k].value = 0}
        least == {k \in Evictable : \A j \in Evictable : cand[k].hits <= cand[j].hits}
    IN  /\ IF free # {} THEN Fill(Smallest(free), v) /\ ncand' = ncand + 1 /\ UNCHANGED dropped
           ELSE IF Evictable # {} THEN Fill(Smallest(least), v) /\ UNCHANGED <<ncand, dropped>>
           ELSE dropped' = TRUE /\ UNCHANGED <<cand, seen, ncand>>
        /\ UNCHANGED <<npromoted, targets, count, failed>>

InTargets(v) == \E k \in 1 .. count : targets[k] = v

\* The processor exits only for a value that is not a target.
relm_cr3_cache_handle_exit(v) ==
    LET found == {k \in Slots : cand[k].value = v}
    IN  /\ ~InTargets(v)
        /\ IF found # {} THEN Hit(Smallest(found)) ELSE Miss(v)

CacheNext == \E v \in Cr3s : relm_cr3_cache_handle_exit(v)

CacheSpec == CacheInit /\ [][CacheNext]_cacheVars

----------------------------------------------------------------------------
(* Properties. *)

\* The cache knows what is in the VMCS: the promoted slots hold exactly the
\* values the processor treats as targets, after evictions, demotions and
\* failed VMWRITEs.  A promoted slot that is no target could never be
\* counted again, a target that is not promoted could be evicted unseen.
PromotedAreTargets ==
    /\ {cand[k].value : k \in {j \in Slots : cand[j].promoted}} = {targets[k] : k \in 1 .. count}
    /\ npromoted = count

\* The scan of the first candidate_count slots misses no address space, and
\* no address space has two slots that share its hits.
TableDense ==
    /\ \A k \in Slots : cand[k].value # 0 <=> k <= ncand
    /\ \A j, k \in 1 .. ncand : cand[j].value = cand[k].value => j = k

\* The message "BUG: table full and no eviction candidate" is never reached.
NeverDropped == ~dropped

\* As long as VMWRITE works, an address space over the threshold that still
\* exits is there because all targets are taken by ones at least as busy.
HotIsTargeted ==
    ~failed => \A k \in Slots :
        cand[k].value # 0 /\ cand[k].hits >= Threshold /\ ~cand[k].promoted =>
        count = MaxTargets /\ \A j \in Slots : cand[j].promoted => cand[j].hits >= cand[k].hits

\* The four together: what the scan, the eviction and the promotion of the
\* cache rely on, and what they are for.
CacheConsistent == TableDense /\ PromotedAreTargets /\ NeverDropped /\ HotIsTargeted

----------------------------------------------------------------------------
(* Claims of comments and documents that the code does not meet. *)

\* "number of populated entries" (vmx.c:2310): candidate_count, which bounds
\* the policy's scan of the table, is how many slots are in use.
CountIsPopulation == ncand = Cardinality({k \in Slots : cand[k].value # 0})
=============================================================================
