-------------------------- MODULE MCConsentWrites --------------------------
(* Instances of ConsentWrites: two worker threads, two tenants, one        *)
(* person, one purpose; which requests arrive is chosen by each cfg.       *)
EXTENDS ConsentWrites

CONSTANTS t1, t2, s1, news, email, web, proofdoc, ann, ben, cat, dan, w1, w2

MCFold == [p \in {news, Blank} |-> p]

MCTenantOf == [p \in Principal |->
                 IF p \in {ann, ben} THEN t1 ELSE IF p = cat THEN t2 ELSE Blank]

NoSeed == [i \in Id |-> None]

Body(i, status, basis, proof) ==
    [id |-> i, tenant |-> Blank, subject |-> s1, purpose |-> news,
     status |-> status, basis |-> basis, source |-> web, proof |-> proof,
     from |-> None, until |-> None, at |-> 0]

ProvenGrant(i)   == Body(i, "granted", "explicit_opt_in", proofdoc)
UnprovenGrant(i) == Body(i, "granted", "soft_opt_in", Blank)
ContractGrant(i) == Body(i, "granted", "contractual", proofdoc)
Withdrawal(i)    == Body(i, "withdrawn", "explicit_opt_in", Blank)
UnknownState(i)  == Body(i, "unknown", "explicit_opt_in", Blank)

SeededPending ==
    [i \in Id |-> IF i = 1 THEN [UnprovenGrant(1) EXCEPT !.tenant = t1, !.status = "pending_review"]
                           ELSE None]

Preference(i, opted) ==
    [id |-> i, tenant |-> Blank, subject |-> s1, channel |-> email, opted_in |-> opted, at |-> 0]

Suppression(i) ==
    [id |-> i, tenant |-> Blank, subject |-> s1, scope |-> "all", channel |-> None,
     purpose |-> Blank, from |-> None, until |-> None]

Cap(i) == [id |-> i, tenant |-> Blank, channel |-> email, max |-> 1, window |-> 1, purpose |-> Blank]

Send(i, at, offset) ==
    [id |-> i, tenant |-> Blank, subject |-> s1, channel |-> email, at |-> at, offset |-> offset]

\* Grants, their confirmations and what may cross them.
GateRecords == {ProvenGrant(1), UnprovenGrant(1), ContractGrant(2), UnknownState(1)}

\* A withdrawal under an id of its own, and a grant that may be retried.
RetryRecords == {ProvenGrant(1), Withdrawal(2)}

\* A grant that needs a checker.
PendingRecords == {UnprovenGrant(1)}

\* One row of the other kinds.
NoBodies == {}
OnePreference == {Preference(1, TRUE)}
OneSuppression == {Suppression(1)}
OneCap == {Cap(1)}
TwoSends == {Send(1, None, 1), Send(2, 0, 1)}
=============================================================================
