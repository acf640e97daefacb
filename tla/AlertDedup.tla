------------------------------ MODULE AlertDedup ------------------------------
(***************************************************************************)
(* evaluateDedup: an alert is compared with the last one of its key, and   *)
(* only the first of a window and every escalated duplicate is announced.  *)
(* The state of the key is read from Redis, counted up and written back in *)
(* two commands; a call whose command fails uses the map of its process,   *)
(* where all calls share one object.                                       *)
(***************************************************************************)
EXTENDS Integers

CONSTANTS
    Emitters,        \* calls of emitSecurityAlert with one dedup key
    EscalateAfter,   \* SECURITY_ALERT_DUPLICATE_ESCALATE_AFTER
    EscalateEvery    \* SECURITY_ALERT_DUPLICATE_ESCALATE_EVERY

ASSUME DedupBounds == EscalateAfter \in Nat /\ EscalateEvery \in Nat \ {0}

VARIABLES
    shared,   \* duplicateCount stored in Redis, or Unseen
    object,   \* duplicateCount of the DedupState each call created
    local,    \* the calls whose object the map holds: one or none
    emitter,  \* locals of each call: its step, whose object it uses, isDuplicate
    fell      \* history: some call went on with the object of the map

dedupVars == <<shared, object, local, emitter, fell>>

\* No state of the key.
Unseen == -1

DedupInit ==
    /\ shared = Unseen /\ local = {} /\ fell = FALSE
    /\ object = [m \in Emitters |-> 0]
    /\ emitter = [m \in Emitters |-> [step |-> "read", of |-> m, duplicate |-> FALSE]]

ShouldEscalateDuplicate(n) ==
    EscalateAfter > 0 /\ n >= EscalateAfter /\ (n - EscalateAfter) % EscalateEvery = 0

\* The count a call compares and returns: it reads its object again after the
\* awaited write, and a first alert counts 0.
DuplicateCount(m) == IF emitter[m].duplicate THEN object[emitter[m].of] ELSE 0

\* shouldDeliverFromDedup.
IsAnnounced(n) == n = 0 \/ ShouldEscalateDuplicate(n)

\* Mutant: counts up when the state is parsed, and again.
CountTwice(m, o, n, duplicate) ==
    /\ object' = [object EXCEPT ![o] = IF duplicate THEN n + 1 ELSE n]
    /\ emitter' = [emitter EXCEPT ![m] = [step |-> "write", of |-> o, duplicate |-> duplicate]]

\* Goes on with the object of call o, which has count n now.
CountOn(m, o, n, duplicate) ==
    /\ object' = [object EXCEPT ![o] = n]
    /\ emitter' = [emitter EXCEPT ![m] = [step |-> "write", of |-> o, duplicate |-> duplicate]]

\* getDedupState and what is counted from it.  A state may count as older than
\* the window at any time, and the map is used when the command fails.
ReadDedup(m) ==
    /\ emitter[m].step = "read"
    /\ \/ CountOn(m, m, 0, FALSE) /\ UNCHANGED fell
       \/ shared # Unseen /\ CountOn(m, m, shared + 1, TRUE) /\ UNCHANGED fell
       \/ \E o \in local : CountOn(m, o, object[o] + 1, TRUE) /\ fell' = TRUE
    /\ UNCHANGED <<shared, local>>

\* setDedupState: SET succeeds, fails, or succeeds without an answer.
WriteDedup(m) ==
    /\ emitter[m].step = "write"
    /\ \/ shared' = object[emitter[m].of] /\ UNCHANGED local
       \/ UNCHANGED shared /\ local' = {emitter[m].of}
       \/ shared' = object[emitter[m].of] /\ local' = {emitter[m].of}
    /\ emitter' = [emitter EXCEPT ![m].step = "return"]
    /\ UNCHANGED <<object, fell>>

\* The rest of evaluateDedup and the log line, if the alert is announced.
EmitAlert(m) ==
    /\ emitter[m].step = "return"
    /\ emitter' = [emitter EXCEPT ![m].step = "emitted"]
    /\ UNCHANGED <<shared, object, local, fell>>

\* Redis forgets the key after its time to live.
DedupExpires ==
    /\ shared # Unseen
    /\ shared' = Unseen
    /\ UNCHANGED <<object, local, emitter, fell>>

\* The process of the calls ends: they announce nothing more.
EmittersDie ==
    /\ emitter' = [m \in Emitters |->
                    IF emitter[m].step \in {"write", "return"}
                    THEN [emitter[m] EXCEPT !.step = "dead"] ELSE emitter[m]]
    /\ local' = {}
    /\ <<emitter, local>>' # <<emitter, local>>
    /\ UNCHANGED <<shared, object, fell>>

DedupNext ==
    \/ \E m \in Emitters : ReadDedup(m) \/ WriteDedup(m) \/ EmitAlert(m)
    \/ DedupExpires \/ EmittersDie

DedupSpec == DedupInit /\ [][DedupNext]_dedupVars

---------------------------------------------------------------------------
\* Some call came to this count; it announced it, is about to, or died.
Reached(n) == \E m \in Emitters : emitter[m].step # "read" /\ DuplicateCount(m) = n

\* While Redis is the store, no count is skipped however the calls overlap, fail
\* or expire: before an alert is held back as the n-th duplicate, the first one
\* and every duplicate up to the n-th that escalates came to some call.  Two
\* calls that share the object of the map may both return the later count.
SuppressedWasAnnounced ==
    ~fell => \A m \in Emitters :
        emitter[m].step = "emitted" =>
            \A n \in 0..DuplicateCount(m) : IsAnnounced(n) => Reached(n)
=============================================================================
