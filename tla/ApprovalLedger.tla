---------------------------- MODULE ApprovalLedger ----------------------------
(***************************************************************************)
(* What the approvals table promises the rest of the system, without       *)
(* threads, transactions or a clock: a purchase request has at most one    *)
(* current approval, which is decided at most once, and an approval that   *)
(* is no longer current never becomes current again.                       *)
(***************************************************************************)
CONSTANTS Ids, Requests, None

VARIABLES
    current,   \* the one approval a request relies on, or None
    granted,   \* the current approvals a finance approver granted
    fate       \* what became of each id

ledgerVars == <<current, granted, fate>>

Fates == {"unused", "open", "REJECTED", "EXPIRED", "SUPERSEDED"}

LedgerTypeOK ==
    /\ current \in [Requests -> Ids \cup {None}]
    /\ granted \in SUBSET Ids
    /\ fate \in [Ids -> Fates]

LedgerInit ==
    /\ current = [r \in Requests |-> None]
    /\ granted = {}
    /\ fate = [id \in Ids |-> "unused"]

\* The current approval is granted; it stays current.
Grant(r) ==
    /\ current[r] # None
    /\ current[r] \notin granted
    /\ granted' = granted \cup {current[r]}
    /\ UNCHANGED <<current, fate>>

\* The current approval ends without a successor.  A granted one can only
\* be superseded.
Close(r, how) ==
    /\ current[r] # None
    /\ how # "SUPERSEDED" => current[r] \notin granted
    /\ fate' = [fate EXCEPT ![current[r]] = how]
    /\ granted' = granted \ {current[r]}
    /\ current' = [current EXCEPT ![r] = None]

\* A request that relies on no approval gets a new one.
Open(r, id) ==
    /\ current[r] = None
    /\ fate[id] = "unused"
    /\ fate' = [fate EXCEPT ![id] = "open"]
    /\ current' = [current EXCEPT ![r] = id]
    /\ UNCHANGED granted

\* Close and Open in one step: no instant without an approval in between.
Replace(r, id, how) ==
    /\ current[r] # None
    /\ how # "SUPERSEDED" => current[r] \notin granted
    /\ fate[id] = "unused"
    /\ fate' = [fate EXCEPT ![current[r]] = how, ![id] = "open"]
    /\ granted' = granted \ {current[r]}
    /\ current' = [current EXCEPT ![r] = id]

LedgerNext ==
    \E r \in Requests :
        \/ Grant(r)
        \/ \E how \in {"REJECTED", "EXPIRED", "SUPERSEDED"} : Close(r, how)
        \/ \E id \in Ids : Open(r, id)
        \/ \E id \in Ids, how \in {"EXPIRED", "SUPERSEDED"} : Replace(r, id, how)

LedgerSpec == LedgerInit /\ [][LedgerNext]_ledgerVars
=============================================================================
