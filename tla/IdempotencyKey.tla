---------------------------- MODULE IdempotencyKey ----------------------------
(***************************************************************************)
(* The idempotency service (src/services/idempotency.service.ts): a row    *)
(* per (scope, key), unique, that expires after a time to live.            *)
(*                                                                         *)
(* With PostgreSQL a reservation is up to four statements, each its own    *)
(* transaction: create, look the row up when the create hits the unique    *)
(* index, delete it when it has expired, create again.  Calls interleave   *)
(* between them, and each may throw, before or after it took effect.       *)
(* Without PostgreSQL a map of one process is used, in one step.  A row is *)
(* identified by the call that created it.                                 *)
(***************************************************************************)
EXTENDS Integers, FiniteSets

CONSTANTS
    Calls,          \* requests that reserve a key
    Keys,           \* (scope, key) pairs
    None,           \* null
    TTL,            \* time to live of a reservation
    MaxTime,        \* bound on the clock
    MemoryCapacity, \* in strict mode the in-memory map is cleared above this (10 000)
    PromptHolders   \* TRUE: a request ends before its reservation expires

VARIABLES
    store,      \* "pg" or "memory": canUsePg(), fixed for a deployment
    now,        \* the clock
    keyRows,    \* [Keys -> row or None]: the IdempotencyKey rows / memory map
    idemPc,     \* where a call is
    keyOf,      \* the key a call asked for
    expiresAt,  \* the expiry a call computed when it started
    found,      \* the row id (creating call) a call looked up
    dropped     \* history: keys the clearing of the full memory map dropped

idemVars == <<store, now, keyRows, idemPc, keyOf, expiresAt, found, dropped>>

Working == {"create", "find", "delete", "recreate"}

\* "lost": the row was created, but the call threw instead of returning.
Phases == {"idle", "held", "lost", "kept", "released", "replay", "error"} \cup Working

Row == [id: Calls, expiresAt: Nat]

ASSUME IdempotencyAssumption ==
    /\ None \notin Calls \cup Keys \cup Row
    /\ TTL \in Nat \ {0}
    /\ MaxTime \in Nat
    /\ MemoryCapacity \in Nat
    /\ PromptHolders \in BOOLEAN

TypeOK ==
    /\ store \in {"pg", "memory"}
    /\ now \in 0..MaxTime
    /\ keyRows \in [Keys -> Row \cup {None}]
    /\ idemPc \in [Calls -> Phases]
    /\ keyOf \in [Calls -> Keys \cup {None}]
    /\ expiresAt \in [Calls -> Nat]
    /\ found \in [Calls -> Calls \cup {None}]
    /\ dropped \subseteq Keys

Init ==
    /\ store \in {"pg", "memory"}
    /\ now = 0
    /\ keyRows = [k \in Keys |-> None]
    /\ idemPc = [c \in Calls |-> "idle"]
    /\ keyOf = [c \in Calls |-> None]
    /\ expiresAt = [c \in Calls |-> 0]
    /\ found = [c \in Calls |-> None]
    /\ dropped = {}

NewRow(c) == [id |-> c, expiresAt |-> expiresAt[c]]

Goto(c, phase) == idemPc' = [idemPc EXCEPT ![c] = phase]

Expired(row) == row.expiresAt <= now

(***************************************************************************)
(* reserveIdempotencyKey                                                   *)
(***************************************************************************)
Begin(c, k) ==
    /\ idemPc[c] = "idle"
    /\ keyOf' = [keyOf EXCEPT ![c] = k]
    /\ expiresAt' = [expiresAt EXCEPT ![c] = now + TTL]
    /\ Goto(c, "create")
    /\ UNCHANGED <<store, now, keyRows, found, dropped>>

\* The row is created; the answer may be lost on the way back to the caller.
Insert(c) ==
    /\ keyRows[keyOf[c]] = None
    /\ keyRows' = [keyRows EXCEPT ![keyOf[c]] = NewRow(c)]
    /\ Goto(c, "held") \/ Goto(c, "lost")

\* A statement throws and has changed nothing.
Fails(c) ==
    /\ Goto(c, "error")
    /\ UNCHANGED keyRows

\* The first create, its unique-index violation (P2002), any other error.
Create(c) ==
    /\ store = "pg"
    /\ idemPc[c] = "create"
    /\ \/ Insert(c)
       \/ /\ keyRows[keyOf[c]] # None
          /\ Goto(c, "find")
          /\ UNCHANGED keyRows
       \/ Fails(c)
    /\ UNCHANGED <<store, now, keyOf, expiresAt, found, dropped>>

\* The row that was in the way: expired, or a live reservation; it is gone, or the
\* read throws.
Find(c) ==
    /\ idemPc[c] = "find"
    /\ \/ /\ Goto(c, "error")
          /\ UNCHANGED found
       \/ /\ keyRows[keyOf[c]] # None
          /\ Expired(keyRows[keyOf[c]])
          /\ found' = [found EXCEPT ![c] = keyRows[keyOf[c]].id]
          /\ Goto(c, "delete")
       \/ /\ keyRows[keyOf[c]] # None
          /\ ~Expired(keyRows[keyOf[c]])
          /\ Goto(c, "replay")
          /\ UNCHANGED found
    /\ UNCHANGED <<store, now, keyRows, keyOf, expiresAt, dropped>>

\* Mutant: the expired row is deleted by scope and key.
IsFoundRowByKey(c) == keyRows[keyOf[c]] # None

\* The delete names the id that was looked up, so it cannot hit a newer row.
IsFoundRow(c) ==
    /\ keyRows[keyOf[c]] # None
    /\ keyRows[keyOf[c]].id = found[c]

\* The row may be deleted although the call throws; a row that is gone is an error.
Delete(c) ==
    /\ idemPc[c] = "delete"
    /\ \/ /\ IsFoundRow(c)
          /\ keyRows' = [keyRows EXCEPT ![keyOf[c]] = None]
          /\ Goto(c, "recreate") \/ Goto(c, "error")
       \/ Fails(c)
    /\ UNCHANGED <<store, now, keyOf, expiresAt, found, dropped>>

\* The second create: here every error is thrown on.
Recreate(c) ==
    /\ idemPc[c] = "recreate"
    /\ Insert(c) \/ Fails(c)
    /\ UNCHANGED <<store, now, keyOf, expiresAt, found, dropped>>

\* The in-memory map: a full map is cleared, the entry just made included.
ReserveInMemory(c) ==
    /\ store = "memory"
    /\ idemPc[c] = "create"
    /\ LET blocked == /\ keyRows[keyOf[c]] # None
                      /\ ~Expired(keyRows[keyOf[c]])
           rows == [keyRows EXCEPT ![keyOf[c]] = NewRow(c)]
           used == {k \in Keys : rows[k] # None}
           full == Cardinality(used) > MemoryCapacity
       IN \/ /\ blocked
             /\ Goto(c, "replay")
             /\ UNCHANGED <<keyRows, dropped>>
          \/ /\ ~blocked
             /\ Goto(c, "held")
             /\ keyRows' = IF full THEN [k \in Keys |-> None] ELSE rows
             /\ dropped' = IF full THEN dropped \cup used ELSE dropped
    /\ UNCHANGED <<store, now, keyOf, expiresAt, found>>

(***************************************************************************)
(* The holder: it releases the key (by scope and key, whoever holds it     *)
(* now), or ends and leaves the row to expire.                             *)
(***************************************************************************)
Release(c) ==
    /\ idemPc[c] = "held"
    /\ keyRows' = [keyRows EXCEPT ![keyOf[c]] = None]
    /\ Goto(c, "released")
    /\ UNCHANGED <<store, now, keyOf, expiresAt, found, dropped>>

Keep(c) ==
    /\ idemPc[c] = "held"
    /\ Goto(c, "kept")
    /\ UNCHANGED <<store, now, keyRows, keyOf, expiresAt, found, dropped>>

InProgress(c) == idemPc[c] \in Working \cup {"held"}

\* Time passes.  Under PromptHolders a request that is still running is never
\* overtaken by the expiry it computed at its start.
Tick ==
    /\ now < MaxTime
    /\ PromptHolders => \A c \in Calls : InProgress(c) => now + 1 < expiresAt[c]
    /\ now' = now + 1
    /\ UNCHANGED <<store, keyRows, idemPc, keyOf, expiresAt, found, dropped>>

Step(c) ==
    \/ \E k \in Keys : Begin(c, k)
    \/ Create(c)
    \/ Find(c)
    \/ Delete(c)
    \/ Recreate(c)
    \/ ReserveInMemory(c)
    \/ Release(c)
    \/ Keep(c)

Next == Tick \/ \E c \in Calls : Step(c)

Spec == Init /\ [][Next]_idemVars

(***************************************************************************)
(* Properties                                                              *)
(***************************************************************************)
Protects(c) == idemPc[c] \in {"held", "kept"} /\ now < expiresAt[c]

\* Two requests never hold one key at the same time: of two that reserved it
\* and did not give it up, one has expired.  It needs requests that end within
\* the time to live, and it is lost for the keys a full in-memory map drops.
ExclusiveReservation ==
    PromptHolders =>
        \A c, d \in Calls :
            /\ c # d
            /\ keyOf[c] = keyOf[d]
            /\ Protects(c)
            /\ Protects(d)
            => keyOf[c] \in dropped

\* Whatever the timing, a reserving call takes a row away only when that row has
\* expired: of the calls that find one expired row, one at most replaces it.
RemovesOnlyExpired ==
    \A k \in Keys :
        /\ keyRows[k] # None
        /\ keyRows'[k] # keyRows[k]
        => \/ Expired(keyRows[k])
           \/ \E c \in Calls : idemPc[c] = "held" /\ idemPc'[c] = "released"
           \/ k \in dropped'

ReplacesOnlyExpired == [][RemovesOnlyExpired]_idemVars

(***************************************************************************)
(* The inductive invariant behind them.  A row is the one its creating     *)
(* call describes; the row a call is about to delete has expired; a prompt *)
(* request has not; and a reservation that still protects has its row.     *)
(***************************************************************************)
RowsDescribeTheirCall ==
    \A k \in Keys : keyRows[k] # None =>
        /\ keyRows[k].expiresAt = expiresAt[keyRows[k].id]
        /\ keyOf[keyRows[k].id] = k
        /\ idemPc[keyRows[k].id] \in {"held", "lost", "kept"}

FoundRowsExpired ==
    \A c \in Calls : idemPc[c] = "delete" =>
        /\ found[c] \in Calls
        /\ expiresAt[found[c]] <= now
        /\ idemPc[found[c]] # "idle"

StartedCallsHaveKeys ==
    \A c \in Calls : idemPc[c] # "idle" => keyOf[c] \in Keys

PromptInProgress ==
    PromptHolders => \A c \in Calls : InProgress(c) => now < expiresAt[c]

ProtectedByRow ==
    PromptHolders =>
        \A c \in Calls : Protects(c) /\ keyOf[c] \notin dropped =>
            keyRows[keyOf[c]] = NewRow(c)

IInv ==
    /\ TypeOK
    /\ RowsDescribeTheirCall
    /\ FoundRowsExpired
    /\ StartedCallsHaveKeys
    /\ PromptInProgress
    /\ ProtectedByRow
=============================================================================
