--------------------------- MODULE ConsentWrites ---------------------------
(***************************************************************************)
(* ConsentService's writes: the gate a grant passes before it is stored,   *)
(* the checker's confirmation, preferences, suppressions, caps and sends,  *)
(* each called by a worker thread of the API.                              *)
(*                                                                         *)
(* A call runs as the code runs it: it stamps and gates its row, puts it,  *)
(* audits it and, for a grant without proof, routes it to the review       *)
(* console; other threads and the clock move between any two of these.  A  *)
(* call whose body or principal is refused changes nothing, so it is no    *)
(* step of its own.  `approved' is history: the statements checkers have   *)
(* approved, as they read them.  It is never read by an action.            *)
(***************************************************************************)
EXTENDS ConsentStore

CONSTANTS Thread, Principal,
          TenantOf,     \* the verified tenant of each principal, or Blank
          RecordBodies, PreferenceBodies, SuppressionBodies, CapBodies, SendBodies,
          MaxTime,      \* bound on the clock
          MaxCalls      \* bound on the calls made

\* What a request may carry.  The tenant and the stamps are overwritten.
ASSUME BodyAssumption ==
    /\ TenantOf \in [Principal -> Tenant \cup {Blank}]
    /\ RecordBodies \subseteq
         [id: Id, tenant: {Blank}, subject: Subject \cup {Blank},
          purpose: Purpose \cup {Blank}, status: Status, basis: Basis,
          source: Text \cup {Blank}, proof: Text \cup {Blank},
          from: Moment, until: Moment, at: {0}]
    /\ PreferenceBodies \subseteq
         [id: Id, tenant: {Blank}, subject: Subject \cup {Blank}, channel: Channel,
          opted_in: BOOLEAN, at: {0}]
    /\ SuppressionBodies \subseteq
         [id: Id, tenant: {Blank}, subject: Subject \cup {Blank}, scope: Scope,
          channel: Channel \cup {None}, purpose: Purpose \cup {Blank},
          from: {None}, until: Moment]
    /\ CapBodies \subseteq
         [id: Id, tenant: {Blank}, channel: Channel, max: Int, window: Int,
          purpose: Purpose \cup {Blank}]
    /\ SendBodies \subseteq
         [id: Id, tenant: {Blank}, subject: Subject \cup {Blank}, channel: Channel,
          at: Moment, offset: Offset]
    /\ 0 \in Offset
    /\ MaxTime \in Nat /\ MaxCalls \in Nat

VARIABLES now, calls,
          pc,       \* where each thread is in the call it serves
          who,      \* the principal of that call
          write,    \* the row it is about to put, or has put
          audit,    \* the audit trail, as the set of events in it
          console,  \* the statements the review console has received
          approved

callVars == <<pc, who, write>>
vars == <<tables, now, calls, callVars, audit, console, approved>>

RecordSteps == {"put_record", "audit_record", "route", "put_confirm", "audit_confirm"}
PreferenceSteps == {"put_preference", "audit_preference"}
SuppressionSteps == {"put_suppression", "audit_suppression"}
SendSteps == {"put_send", "audit_send"}
PutSteps == {"put_record", "put_confirm", "put_preference", "put_suppression", "put_send",
             "put_cap"}
WriteSteps == RecordSteps \cup PreferenceSteps \cup SuppressionSteps \cup SendSteps
              \cup {"put_cap"}

ActionOf ==
    [audit_record      |-> "consent_record",     audit_confirm    |-> "consent_confirm",
     audit_preference  |-> "consent_preference", audit_suppression |-> "consent_suppression",
     audit_send        |-> "consent_send"]

AuditSteps == DOMAIN ActionOf

\* A decision's event carries its outcome, and no row's id.
Event == [action: {ActionOf[s] : s \in AuditSteps}
                     \cup {"consent_record_read", "consent_decision"},
          actor: Principal, id: Id \cup {None},
          status: Status \cup {"allowed", "blocked", None}]

\* The type of a thread's state in a write, by the step it is at.
WriteTypeOK(t) ==
    /\ pc[t] \in WriteSteps => who[t] \in Principal /\ TenantOf[who[t]] # Blank
    /\ pc[t] \in RecordSteps      => write[t] \in RecordRow
    /\ pc[t] \in PreferenceSteps  => write[t] \in PreferenceRow
    /\ pc[t] \in SuppressionSteps => write[t] \in SuppressionRow
    /\ pc[t] = "put_cap"          => write[t] \in CapRow
    /\ pc[t] \in SendSteps        => write[t] \in SendRow

WritesTypeOK ==
    /\ StoreTypeOK
    /\ now \in Nat /\ calls \in Nat
    /\ \A t \in Thread : WriteTypeOK(t)
    /\ audit \subseteq Event
    /\ console \subseteq RecordRow
    /\ approved \subseteq RecordRow

TypeOK ==
    /\ WritesTypeOK
    /\ pc \in [Thread -> WriteSteps \cup {"idle"}]
    /\ DOMAIN who = Thread /\ DOMAIN write = Thread

WritesInit ==
    /\ StoreInit
    /\ now = 0 /\ calls = 0
    /\ pc = [t \in Thread |-> "idle"]
    /\ who = [t \in Thread |-> None]
    /\ write = [t \in Thread |-> None]
    /\ audit = {} /\ console = {} /\ approved = {}

-----------------------------------------------------------------------------
(* Beginning a call.                                                       *)

\* mutant: the tenant of the principal is not required
BeginUnverified(t, p, step, row) ==
    /\ pc[t] = "idle"
    /\ calls < MaxCalls
    /\ calls' = calls + 1
    /\ pc' = [pc EXCEPT ![t] = step]
    /\ who' = [who EXCEPT ![t] = p]
    /\ write' = [write EXCEPT ![t] = row]
    /\ UNCHANGED <<tables, now, audit, console>>

\* A principal without a tenant is refused before anything is read.
Begin(t, p, step, row) ==
    /\ pc[t] = "idle"
    /\ calls < MaxCalls
    /\ TenantOf[p] # Blank
    /\ calls' = calls + 1
    /\ pc' = [pc EXCEPT ![t] = step]
    /\ who' = [who EXCEPT ![t] = p]
    /\ write' = [write EXCEPT ![t] = row]
    /\ UNCHANGED <<tables, now, audit, console>>

\* mutant: an opt-in with a source needs no captured proof
GateStatusUnproven(r) ==
    IF r.status = "granted" /\ ~(r.basis \in {"explicit_opt_in", "soft_opt_in"} /\ r.source # Blank)
    THEN [r EXCEPT !.status = "pending_review"]
    ELSE r

\* _gate_status: a grant that does not evidence itself lands pending review.
GateStatus(r) ==
    IF r.status = "granted" /\ ~SelfEvidencing(r)
    THEN [r EXCEPT !.status = "pending_review"]
    ELSE r

\* The route stamps captured_at, the service the verified tenant.
BeginRecord(t, p, b) ==
    /\ b.subject # Blank /\ b.purpose # Blank
    /\ Begin(t, p, "put_record", GateStatus([b EXCEPT !.tenant = TenantOf[p], !.at = now]))
    /\ UNCHANGED approved

BeginPreference(t, p, b) ==
    /\ b.subject # Blank
    /\ Begin(t, p, "put_preference", [b EXCEPT !.tenant = TenantOf[p], !.at = now])
    /\ UNCHANGED approved

BeginSuppression(t, p, b) ==
    /\ b.subject # Blank
    /\ b.scope = "channel" => b.channel # None
    /\ b.scope = "purpose" => b.purpose # Blank
    /\ Begin(t, p, "put_suppression", [b EXCEPT !.tenant = TenantOf[p], !.from = now])
    /\ UNCHANGED approved

BeginCap(t, p, b) ==
    /\ b.max >= 0 /\ b.window > 0
    /\ Begin(t, p, "put_cap", [b EXCEPT !.tenant = TenantOf[p]])
    /\ UNCHANGED approved

\* sent_at is the caller's, with the caller's offset, or the UTC clock.
BeginSend(t, p, b) ==
    /\ b.subject # Blank
    /\ Begin(t, p, "put_send",
             IF b.at = None
             THEN [b EXCEPT !.tenant = TenantOf[p], !.at = now, !.offset = 0]
             ELSE [b EXCEPT !.tenant = TenantOf[p]])
    /\ UNCHANGED approved

\* confirm: the checker's answer replaces the status and nothing else.
Promoted(r, approve) ==
    [r EXCEPT !.status = IF approve THEN "granted" ELSE "withdrawn"]

\* mutant: any record of the tenant may be confirmed
MayConfirmAny(p, i) ==
    /\ records[i] # None
    /\ records[i].tenant = TenantOf[p]

MayConfirm(p, i) ==
    /\ records[i] # None
    /\ records[i].tenant = TenantOf[p]
    /\ records[i].status = "pending_review"

BeginConfirm(t, p, i, approve) ==
    /\ MayConfirm(p, i)
    /\ Begin(t, p, "put_confirm", Promoted(records[i], approve))
    /\ approved' = IF approve THEN approved \cup {records[i]} ELSE approved

\* record_by_id: another tenant's record is refused, and the refusal audited.
RefuseForeignRead(t, p, i) ==
    /\ pc[t] = "idle" /\ calls < MaxCalls
    /\ TenantOf[p] # Blank
    /\ records[i] # None /\ records[i].tenant # TenantOf[p]
    /\ calls' = calls + 1
    /\ audit' = audit \cup {[action |-> "consent_record_read", actor |-> p,
                             id |-> i, status |-> None]}
    /\ UNCHANGED <<tables, now, callVars, console, approved>>

-----------------------------------------------------------------------------
(* The rest of a call: put, audit, route.                                  *)

Goto(t, step) ==
    /\ pc' = [pc EXCEPT ![t] = step]
    /\ UNCHANGED <<who, write>>

Return(t) ==
    /\ pc' = [pc EXCEPT ![t] = "idle"]
    /\ who' = [who EXCEPT ![t] = None]
    /\ write' = [write EXCEPT ![t] = None]

Put(t) ==
    /\ \/ pc[t] = "put_record"      /\ PutRecord(write[t])      /\ Goto(t, "audit_record")
       \/ pc[t] = "put_confirm"     /\ PutRecord(write[t])      /\ Goto(t, "audit_confirm")
       \/ pc[t] = "put_preference"  /\ PutPreference(write[t])  /\ Goto(t, "audit_preference")
       \/ pc[t] = "put_suppression" /\ PutSuppression(write[t]) /\ Goto(t, "audit_suppression")
       \/ pc[t] = "put_send"        /\ RecordSend(write[t])     /\ Goto(t, "audit_send")
       \/ pc[t] = "put_cap"         /\ PutCap(write[t])         /\ Return(t)
    /\ UNCHANGED <<now, calls, audit, console, approved>>

Audited(t) ==
    [action |-> ActionOf[pc[t]], actor |-> who[t], id |-> write[t].id,
     status |-> IF pc[t] \in RecordSteps THEN write[t].status ELSE None]

Audit(t) ==
    /\ pc[t] \in AuditSteps
    /\ audit' = audit \cup {Audited(t)}
    /\ IF pc[t] = "audit_record" /\ write[t].status = "pending_review"
       THEN Goto(t, "route") ELSE Return(t)
    /\ UNCHANGED <<tables, now, calls, console, approved>>

\* mutant: an audit failure is swallowed like a routing failure
CallFailsSwallowed(t) ==
    /\ pc[t] \in PutSteps \cup AuditSteps
    /\ IF pc[t] = "audit_record" /\ write[t].status = "pending_review"
       THEN Goto(t, "route") ELSE Return(t)
    /\ UNCHANGED <<tables, now, calls, audit, console, approved>>

\* The store or the audit trail raises: the call fails there, and what it has
\* put stays put.
CallFails(t) ==
    /\ pc[t] \in PutSteps \cup AuditSteps
    /\ Return(t)
    /\ UNCHANGED <<tables, now, calls, audit, console, approved>>

\* mutant: a submission the console took but that failed is made again
RouteRetried(t) ==
    /\ pc[t] = "route"
    /\ \/ console' = console \cup {write[t]} /\ Return(t)
       \/ UNCHANGED console /\ Return(t)
       \/ console' = console \cup {write[t]} /\ UNCHANGED callVars
    /\ UNCHANGED <<tables, now, calls, audit, approved>>

\* Best effort, and submitted once: a console that is down receives nothing.
Route(t) ==
    /\ pc[t] = "route"
    /\ \/ console' = console \cup {write[t]}
       \/ UNCHANGED console
    /\ Return(t)
    /\ UNCHANGED <<tables, now, calls, audit, approved>>

Tick ==
    /\ now < MaxTime
    /\ now' = now + 1
    /\ UNCHANGED <<tables, calls, callVars, audit, console, approved>>

BeginWrite(t) ==
    \E p \in Principal :
        \/ \E b \in RecordBodies : BeginRecord(t, p, b)
        \/ \E b \in PreferenceBodies : BeginPreference(t, p, b)
        \/ \E b \in SuppressionBodies : BeginSuppression(t, p, b)
        \/ \E b \in CapBodies : BeginCap(t, p, b)
        \/ \E b \in SendBodies : BeginSend(t, p, b)
        \/ \E i \in Id, approve \in BOOLEAN : BeginConfirm(t, p, i, approve)
        \/ \E i \in Id : RefuseForeignRead(t, p, i)

WriteNext ==
    \/ \E t \in Thread : BeginWrite(t) \/ Put(t) \/ Audit(t) \/ CallFails(t) \/ Route(t)
    \/ Tick

WriteSpec == WritesInit /\ [][WriteNext]_vars

-----------------------------------------------------------------------------
(* Properties.                                                             *)

\* A record as the statement it makes, whatever has been decided about it.
AsStated(r) == [r EXCEPT !.status = "pending_review"]

\* The gate on grants: every grant in the store either carries its own
\* evidence or is, column for column, a statement a checker approved while
\* it was pending.  Neither a retry, nor a write under an id a checker has
\* just read, nor the order two checkers finish in gets another grant in;
\* nor does a checker's answer make a statement younger than it is.
UnevidencedGrantsWereApproved ==
    \A r \in Stored(records) :
        r.status = "granted" => SelfEvidencing(r) \/ AsStated(r) \in approved

\* What the console has was audited first: "best-effort, after the audit
\* write" (_route), also when the audit write fails.
RoutedWasAudited ==
    \A r \in console : \E e \in audit :
        e.action = "consent_record" /\ e.id = r.id /\ e.status = "pending_review"

Due(t) == IF pc[t] = "route" THEN {write[t].id} ELSE {}

Promise == INSTANCE HandOff WITH
    Caller  <- Thread,
    Item    <- Id,
    due     <- [t \in Thread |-> Due(t)],
    trail   <- {e.id : e \in {a \in audit : /\ a.action = "consent_record"
                                            /\ a.status = "pending_review"}},
    console <- {r.id : r \in console}

\* The service implements the promise of HandOff too: a grant that needs a
\* checker is in the trail as pending before its call submits it, once; no
\* other write, confirmation or failed call hands anything over.
ImplementsHandOff == Promise!Spec

StateOf ==
    [granted |-> "in_force", pending_review |-> "pending", withdrawn |-> "closed",
     unknown |-> "closed"]

Statements == {r \in RecordRow : r.status = "pending_review"}

Gate == INSTANCE GrantGate WITH
    Nothing   <- None,
    Statement <- Statements,
    Evidenced <- {r \in Statements : SelfEvidencing(r)},
    position  <- [i \in Id |-> IF records[i] = None THEN None
                               ELSE [state |-> StateOf[records[i].status],
                                     of    |-> AsStated(records[i])]]

\* None stands for no standing statement either.
ASSUME NoneIsNoStanding == None \notin Gate!Standing

\* The service implements the promise of GrantGate: with every thread, every
\* interleaving and every failure of an audit or a console, each step of it
\* asserts, proves, approves, gives effect to or closes one statement, or
\* leaves them all as they were.
ImplementsGrantGate == Gate!Spec

\* A refusal is final: confirm calls WITHDRAWN "the fail-closed terminal
\* state", and refuses a record that is no longer pending.  So no approval is
\* ever stored over a record that stands withdrawn.
RefusalIsTerminal ==
    [][\A t \in Thread :
          pc[t] = "put_confirm" /\ pc'[t] # pc[t] /\ write[t].status = "granted"
          => records[write[t].id].status # "withdrawn"]_vars

\* A write is made under the verified tenant, "so a body cannot write into
\* another tenant's store" (record): what any other tenant has on file for
\* anyone is the same before and after it.
TenantsAreIsolated ==
    [][\A t \in Thread : pc[t] \in PutSteps /\ pc'[t] # pc[t] =>
          \A u \in Tenant \ {TenantOf[who[t]]}, s \in Subject :
              Snapshot(u, s)' = Snapshot(u, s)]_vars
=============================================================================
