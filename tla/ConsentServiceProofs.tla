------------------------ MODULE ConsentServiceProofs ------------------------
(***************************************************************************)
(* The consent service, for any number of threads, callers, tenants, ids,  *)
(* rows and calls.  First what the gate on grants guarantees, proved of    *)
(* ConsentWrites; then decisions among those writes, proved of             *)
(* ConsentDecisions: what a decision read at different instants was so at  *)
(* an instant of it.                                                       *)
(***************************************************************************)
EXTENDS ConsentDecisions, FiniteSetTheorems, TLAPS

-----------------------------------------------------------------------------
(* The gate on grants.                                                     *)

\* The record a call is about to put is well formed, once the body's subject
\* and purpose are named and the verified tenant replaces the body's own.
LEMMA RecordWriteType ==
    ASSUME NEW p \in Principal, TenantOf[p] # Blank,
           NEW b \in RecordBodies, b.subject # Blank, b.purpose # Blank, now \in Nat
    PROVE  GateStatus([b EXCEPT !.tenant = TenantOf[p], !.at = now]) \in RecordRow
<1> DEFINE r == [b EXCEPT !.tenant = TenantOf[p], !.at = now]
<1>1. r \in RecordRow
  BY BodyAssumption DEF RecordRow, Instant
<1>2. [r EXCEPT !.status = "pending_review"] \in RecordRow
  BY <1>1 DEF RecordRow, Status
<1> QED
  BY <1>1, <1>2 DEF GateStatus

\* The same for a preference, a suppression, a cap and a send.
LEMMA OtherWriteTypes ==
    ASSUME NEW p \in Principal, TenantOf[p] # Blank, now \in Nat
    PROVE  /\ \A b \in PreferenceBodies : b.subject # Blank =>
                [b EXCEPT !.tenant = TenantOf[p], !.at = now] \in PreferenceRow
           /\ \A b \in SuppressionBodies : b.subject # Blank =>
                [b EXCEPT !.tenant = TenantOf[p], !.from = now] \in SuppressionRow
           /\ \A b \in CapBodies : b.max >= 0 /\ b.window > 0 =>
                [b EXCEPT !.tenant = TenantOf[p]] \in CapRow
           /\ \A b \in SendBodies : b.subject # Blank =>
                /\ b.at = None =>
                     [b EXCEPT !.tenant = TenantOf[p], !.at = now, !.offset = 0] \in SendRow
                /\ b.at # None => [b EXCEPT !.tenant = TenantOf[p]] \in SendRow
<1>1. ASSUME NEW b \in PreferenceBodies, b.subject # Blank
      PROVE  [b EXCEPT !.tenant = TenantOf[p], !.at = now] \in PreferenceRow
  BY <1>1, BodyAssumption DEF PreferenceRow, Instant
<1>2. ASSUME NEW b \in SuppressionBodies, b.subject # Blank
      PROVE  [b EXCEPT !.tenant = TenantOf[p], !.from = now] \in SuppressionRow
  BY <1>2, BodyAssumption DEF SuppressionRow, Moment, Instant
<1>3. ASSUME NEW b \in CapBodies, b.max >= 0, b.window > 0
      PROVE  [b EXCEPT !.tenant = TenantOf[p]] \in CapRow
  BY <1>3, BodyAssumption DEF CapRow
<1>4. ASSUME NEW b \in SendBodies, b.subject # Blank
      PROVE  /\ b.at = None =>
                  [b EXCEPT !.tenant = TenantOf[p], !.at = now, !.offset = 0] \in SendRow
             /\ b.at # None => [b EXCEPT !.tenant = TenantOf[p]] \in SendRow
  BY <1>4, BodyAssumption DEF SendRow, Moment, Instant
<1> QED
  BY <1>1, <1>2, <1>3, <1>4

\* What a checker's answer makes of a record is a record.
LEMMA PromotedType ==
    ASSUME NEW r \in RecordRow, NEW approve \in BOOLEAN
    PROVE  /\ Promoted(r, approve) \in RecordRow
           /\ Promoted(r, approve).id = r.id
           /\ r.status = "pending_review" => AsStated(Promoted(r, approve)) = r
BY DEF Promoted, RecordRow, Status, AsStated

-----------------------------------------------------------------------------
(* Type correctness.                                                       *)

\* The types, whatever else the threads may be at between two writes.
Typed ==
    /\ WritesTypeOK
    /\ DOMAIN pc = Thread /\ DOMAIN who = Thread /\ DOMAIN write = Thread

\* Beginning a call that is about to put a well-formed row of its kind.
LEMMA BeginType ==
    ASSUME Typed, NEW t \in Thread, NEW p \in Principal, NEW step, NEW row,
           Begin(t, p, step, row),
           step \in RecordSteps      => row \in RecordRow,
           step \in PreferenceSteps  => row \in PreferenceRow,
           step \in SuppressionSteps => row \in SuppressionRow,
           step = "put_cap"          => row \in CapRow,
           step \in SendSteps        => row \in SendRow,
           approved' \subseteq RecordRow
    PROVE  Typed'
<1>1. StoreTypeOK' /\ now' \in Nat /\ calls' \in Nat
      /\ audit' \subseteq Event /\ console' \subseteq RecordRow
  BY DEF Typed, WritesTypeOK, StoreTypeOK, Begin, tables
<1>2. DOMAIN pc' = Thread /\ DOMAIN who' = Thread /\ DOMAIN write' = Thread
  BY DEF Typed, Begin
<1>3. ASSUME NEW u \in Thread
      PROVE  WriteTypeOK(u)'
  <2>1. CASE u = t
    BY <2>1 DEF Typed, Begin, WriteTypeOK
  <2>2. CASE u # t
    <3>1. pc'[u] = pc[u] /\ who'[u] = who[u] /\ write'[u] = write[u]
      BY <2>2 DEF Typed, Begin
    <3> QED
      BY <3>1 DEF Typed, WritesTypeOK, WriteTypeOK
  <2> QED
    BY <2>1, <2>2
<1> QED
  BY <1>1, <1>2, <1>3 DEF Typed, WritesTypeOK

\* A step that moves thread t on, to a step its row still fits, or back to idle.
LEMMA MoveType ==
    ASSUME Typed, StoreTypeOK', NEW t \in Thread,
           \/ Return(t)
           \/ \E step \in WriteSteps :
                 /\ Goto(t, step)
                 /\ pc[t] \in WriteSteps
                 /\ step \in RecordSteps      <=> pc[t] \in RecordSteps
                 /\ step \in PreferenceSteps  <=> pc[t] \in PreferenceSteps
                 /\ step \in SuppressionSteps <=> pc[t] \in SuppressionSteps
                 /\ step \in SendSteps        <=> pc[t] \in SendSteps
                 /\ step # "put_cap",
           now' \in Nat, calls' \in Nat,
           audit' \subseteq Event, console' \subseteq RecordRow, approved' \subseteq RecordRow
    PROVE  Typed'
<1>1. DOMAIN pc' = Thread /\ DOMAIN who' = Thread /\ DOMAIN write' = Thread
  BY DEF Typed, Return, Goto
<1>2. ASSUME NEW u \in Thread
      PROVE  WriteTypeOK(u)'
  <2>1. CASE u = t /\ Return(t)
    BY <2>1 DEF Typed, Return, WriteTypeOK, WriteSteps, RecordSteps, PreferenceSteps,
                SuppressionSteps, SendSteps
  <2>2. CASE u = t /\ ~Return(t)
    BY <2>2 DEF Typed, WritesTypeOK, Goto, WriteTypeOK
  <2>3. CASE u # t
    <3>1. pc'[u] = pc[u] /\ who'[u] = who[u] /\ write'[u] = write[u]
      BY <2>3 DEF Typed, Return, Goto
    <3> QED
      BY <3>1 DEF Typed, WritesTypeOK, WriteTypeOK
  <2> QED
    BY <2>1, <2>2, <2>3
<1> QED
  BY <1>1, <1>2 DEF Typed, WritesTypeOK

\* Every step of a write keeps every variable in its type.
LEMMA TypeStep == Typed /\ [WriteNext]_vars => Typed'
<1> SUFFICES ASSUME Typed, [WriteNext]_vars PROVE Typed'
  OBVIOUS
<1> USE DEF WriteSteps, RecordSteps, PreferenceSteps, SuppressionSteps, SendSteps
<1>1. ASSUME NEW t \in Thread, BeginWrite(t)
      PROVE  Typed'
  <2> PICK p \in Principal :
        \/ \E b \in RecordBodies : BeginRecord(t, p, b)
        \/ \E b \in PreferenceBodies : BeginPreference(t, p, b)
        \/ \E b \in SuppressionBodies : BeginSuppression(t, p, b)
        \/ \E b \in CapBodies : BeginCap(t, p, b)
        \/ \E b \in SendBodies : BeginSend(t, p, b)
        \/ \E i \in Id, approve \in BOOLEAN : BeginConfirm(t, p, i, approve)
        \/ \E i \in Id : RefuseForeignRead(t, p, i)
    BY <1>1 DEF BeginWrite
  <2> approved \subseteq RecordRow /\ now \in Nat
    BY DEF Typed, WritesTypeOK
  <2>1. CASE \E b \in RecordBodies : BeginRecord(t, p, b)
    <3> PICK b \in RecordBodies : BeginRecord(t, p, b)
      BY <2>1
    <3> DEFINE row == GateStatus([b EXCEPT !.tenant = TenantOf[p], !.at = now])
    <3>1. b.subject # Blank /\ b.purpose # Blank /\ Begin(t, p, "put_record", row)
          /\ approved' = approved
      BY DEF BeginRecord
    <3>2. row \in RecordRow
      BY <3>1, RecordWriteType DEF Begin
    <3> HIDE DEF row
    <3> QED
      BY <3>1, <3>2, BeginType
  <2>2. CASE \E b \in PreferenceBodies : BeginPreference(t, p, b)
    <3> PICK b \in PreferenceBodies : BeginPreference(t, p, b)
      BY <2>2
    <3> DEFINE row == [b EXCEPT !.tenant = TenantOf[p], !.at = now]
    <3>1. b.subject # Blank /\ Begin(t, p, "put_preference", row) /\ approved' = approved
      BY DEF BeginPreference
    <3>2. row \in PreferenceRow
      BY <3>1, OtherWriteTypes DEF Begin
    <3> HIDE DEF row
    <3> QED
      BY <3>1, <3>2, BeginType
  <2>3. CASE \E b \in SuppressionBodies : BeginSuppression(t, p, b)
    <3> PICK b \in SuppressionBodies : BeginSuppression(t, p, b)
      BY <2>3
    <3> DEFINE row == [b EXCEPT !.tenant = TenantOf[p], !.from = now]
    <3>1. b.subject # Blank /\ Begin(t, p, "put_suppression", row) /\ approved' = approved
      BY DEF BeginSuppression
    <3>2. row \in SuppressionRow
      BY <3>1, OtherWriteTypes DEF Begin
    <3> HIDE DEF row
    <3> QED
      BY <3>1, <3>2, BeginType
  <2>4. CASE \E b \in CapBodies : BeginCap(t, p, b)
    <3> PICK b \in CapBodies : BeginCap(t, p, b)
      BY <2>4
    <3> DEFINE row == [b EXCEPT !.tenant = TenantOf[p]]
    <3>1. b.max >= 0 /\ b.window > 0 /\ Begin(t, p, "put_cap", row) /\ approved' = approved
      BY DEF BeginCap
    <3>2. row \in CapRow
      BY <3>1, OtherWriteTypes DEF Begin
    <3> HIDE DEF row
    <3> QED
      BY <3>1, <3>2, BeginType
  <2>5. CASE \E b \in SendBodies : BeginSend(t, p, b)
    <3> PICK b \in SendBodies : BeginSend(t, p, b)
      BY <2>5
    <3> DEFINE row == IF b.at = None
                      THEN [b EXCEPT !.tenant = TenantOf[p], !.at = now, !.offset = 0]
                      ELSE [b EXCEPT !.tenant = TenantOf[p]]
    <3>1. b.subject # Blank /\ Begin(t, p, "put_send", row) /\ approved' = approved
      BY DEF BeginSend
    <3>2. row \in SendRow
      BY <3>1, OtherWriteTypes DEF Begin
    <3> HIDE DEF row
    <3> QED
      BY <3>1, <3>2, BeginType
  <2>6. CASE \E i \in Id, approve \in BOOLEAN : BeginConfirm(t, p, i, approve)
    <3> PICK i \in Id, approve \in BOOLEAN : BeginConfirm(t, p, i, approve)
      BY <2>6
    <3>1. records[i] \in RecordRow
      BY DEF Typed, WritesTypeOK, StoreTypeOK, BeginConfirm, MayConfirm
    <3>2. Promoted(records[i], approve) \in RecordRow
      BY <3>1, PromotedType
    <3>3. /\ Begin(t, p, "put_confirm", Promoted(records[i], approve))
          /\ approved' \subseteq RecordRow
      BY <3>1 DEF BeginConfirm
    <3> QED
      BY <3>2, <3>3, BeginType
  <2>7. CASE \E i \in Id : RefuseForeignRead(t, p, i)
    <3> PICK i \in Id : RefuseForeignRead(t, p, i)
      BY <2>7
    <3>1. [action |-> "consent_record_read", actor |-> p, id |-> i, status |-> None] \in Event
      BY DEF Event
    <3>2. audit' \subseteq Event /\ calls' \in Nat
      BY <3>1 DEF Typed, WritesTypeOK, RefuseForeignRead
    <3> QED
      BY <3>2 DEF Typed, WritesTypeOK, StoreTypeOK, WriteTypeOK, RefuseForeignRead,
                  tables, callVars
  <2> QED
    BY <2>1, <2>2, <2>3, <2>4, <2>5, <2>6, <2>7
<1>2. ASSUME NEW t \in Thread, Put(t)
      PROVE  Typed'
  <2>1. StoreTypeOK'
    BY <1>2 DEF Typed, WritesTypeOK, WriteTypeOK, StoreTypeOK, Put, PutRecord,
                PutPreference, PutSuppression, PutCap, RecordSend
  <2>2. /\ now' \in Nat /\ calls' \in Nat
        /\ audit' \subseteq Event /\ console' \subseteq RecordRow /\ approved' \subseteq RecordRow
    BY <1>2 DEF Typed, WritesTypeOK, Put
  <2> QED
    BY <1>2, <2>1, <2>2, MoveType DEF Put
<1>3. ASSUME NEW t \in Thread, Audit(t)
      PROVE  Typed'
  <2>1. Audited(t) \in Event
    BY <1>3 DEF Typed, WritesTypeOK, WriteTypeOK, Audit, Audited, Event, AuditSteps, ActionOf,
                RecordRow, PreferenceRow, SuppressionRow, SendRow
  <2>2. /\ StoreTypeOK' /\ now' \in Nat /\ calls' \in Nat
        /\ audit' \subseteq Event /\ console' \subseteq RecordRow /\ approved' \subseteq RecordRow
    BY <1>3, <2>1 DEF Typed, WritesTypeOK, StoreTypeOK, Audit, tables
  <2> QED
    BY <1>3, <2>2, MoveType DEF Audit
<1>4. ASSUME NEW t \in Thread, CallFails(t) \/ Route(t)
      PROVE  Typed'
  <2>1. pc[t] = "route" => write[t] \in RecordRow
    BY DEF Typed, WritesTypeOK, WriteTypeOK
  <2>2. /\ StoreTypeOK' /\ now' \in Nat /\ calls' \in Nat
        /\ audit' \subseteq Event /\ console' \subseteq RecordRow /\ approved' \subseteq RecordRow
    BY <1>4, <2>1 DEF Typed, WritesTypeOK, StoreTypeOK, CallFails, Route, tables
  <2> QED
    BY <1>4, <2>2, MoveType DEF CallFails, Route
<1>5. CASE Tick
  BY <1>5 DEF Typed, WritesTypeOK, StoreTypeOK, WriteTypeOK, Tick, tables, callVars
<1>6. CASE UNCHANGED vars
  BY <1>6 DEF Typed, WritesTypeOK, StoreTypeOK, WriteTypeOK, vars, tables, callVars
<1> QED
  BY <1>1, <1>2, <1>3, <1>4, <1>5, <1>6 DEF WriteNext

\* The steps of the writes take a thread to the steps of the writes.
LEMMA StepsStep ==
    ASSUME NEW S, WriteSteps \cup {"idle"} \subseteq S, pc \in [Thread -> S], [WriteNext]_vars
    PROVE  pc' \in [Thread -> S]
<1> USE DEF WriteSteps, RecordSteps, PreferenceSteps, SuppressionSteps, SendSteps
<1>1. ASSUME NEW t \in Thread, BeginWrite(t)
      PROVE  pc' \in [Thread -> S]
  BY <1>1 DEF BeginWrite, BeginRecord, BeginPreference, BeginSuppression, BeginCap, BeginSend,
              BeginConfirm, RefuseForeignRead, Begin, callVars
<1>2. ASSUME NEW t \in Thread, Put(t) \/ Audit(t) \/ CallFails(t) \/ Route(t)
      PROVE  pc' \in [Thread -> S]
  BY <1>2 DEF Put, Audit, CallFails, Route, Goto, Return
<1>3. CASE Tick \/ UNCHANGED vars
  BY <1>3 DEF Tick, vars, callVars
<1> QED
  BY <1>1, <1>2, <1>3 DEF WriteNext

LEMMA TypeOKStep == TypeOK /\ [WriteNext]_vars => TypeOK'
<1>1. TypeOK <=> Typed /\ pc \in [Thread -> WriteSteps \cup {"idle"}]
  BY DEF TypeOK, Typed
<1>2. TypeOK' <=> Typed' /\ pc' \in [Thread -> WriteSteps \cup {"idle"}]
  BY DEF TypeOK, Typed
<1> QED
  BY <1>1, <1>2, TypeStep, StepsStep

\* Every variable keeps its type: in particular a thread's row always has the
\* shape of the table its next step puts it into.
THEOREM TypeCorrect == WriteSpec => []TypeOK
<1>1. WritesInit => TypeOK
  BY SeedAssumption DEF WritesInit, StoreInit, TypeOK, WritesTypeOK, StoreTypeOK, WriteTypeOK,
     WriteSteps, RecordSteps, PreferenceSteps, SuppressionSteps, SendSteps
<1> QED
  BY <1>1, TypeOKStep, PTL DEF WriteSpec

-----------------------------------------------------------------------------
(* The gate on grants.                                                     *)

Backed(r) == SelfEvidencing(r) \/ AsStated(r) \in approved

\* UnevidencedGrantsWereApproved says nothing of a row a thread is about to
\* put, so it is not inductive: the grants in flight are backed as well.
GateInv ==
    /\ UnevidencedGrantsWereApproved
    /\ \A t \in Thread :
          pc[t] \in {"put_record", "put_confirm"} /\ write[t].status = "granted"
          => Backed(write[t])

\* What passes _gate_status as a grant evidences itself.
LEMMA GatedGrantsAreEvidenced ==
    ASSUME NEW r, GateStatus(r).status = "granted", r \in RecordRow
    PROVE  GateStatus(r) = r /\ SelfEvidencing(r)
BY DEF GateStatus, RecordRow

LEMMA GateInvBegin ==
    ASSUME TypeOK, GateInv, NEW t \in Thread, NEW p, NEW step, NEW row,
           Begin(t, p, step, row), approved \subseteq approved',
           step \in {"put_record", "put_confirm"} /\ row.status = "granted"
             => SelfEvidencing(row) \/ AsStated(row) \in approved'
    PROVE  GateInv'
<1>1. UnevidencedGrantsWereApproved'
  BY DEF GateInv, UnevidencedGrantsWereApproved, Stored, Begin, tables
<1>2. ASSUME NEW u \in Thread,
             pc'[u] \in {"put_record", "put_confirm"}, write'[u].status = "granted"
      PROVE  Backed(write[u])'
  <2>1. CASE u = t
    BY <1>2, <2>1 DEF TypeOK, Begin, Backed
  <2>2. CASE u # t
    BY <1>2, <2>2 DEF TypeOK, GateInv, Begin, Backed
  <2> QED
    BY <2>1, <2>2
<1> QED
  BY <1>1, <1>2 DEF GateInv

\* A step that leaves the approvals alone and puts no record but a backed one.
LEMMA GateInvMove ==
    ASSUME TypeOK, GateInv, NEW t \in Thread, approved' = approved,
           \/ Return(t)
           \/ \E step \in WriteSteps \ {"put_record", "put_confirm"} : Goto(t, step),
           \/ records' = records
           \/ pc[t] \in {"put_record", "put_confirm"} /\ PutRecord(write[t])
    PROVE  GateInv'
<1>1. ASSUME NEW i \in Id, records'[i] # None, records'[i].status = "granted"
      PROVE  Backed(records'[i])
  <2>1. CASE records'[i] = records[i]
    BY <1>1, <2>1 DEF GateInv, UnevidencedGrantsWereApproved, Stored, Backed
  <2>2. CASE records'[i] # records[i]
    <3>1. pc[t] \in {"put_record", "put_confirm"} /\ PutRecord(write[t])
      BY <2>2
    <3>2. records'[i] = write[t]
      BY <2>2, <3>1 DEF PutRecord, TypeOK, WritesTypeOK, StoreTypeOK
    <3> QED
      BY <1>1, <3>1, <3>2 DEF GateInv
  <2> QED
    BY <2>1, <2>2
<1>2. UnevidencedGrantsWereApproved'
  BY <1>1 DEF UnevidencedGrantsWereApproved, Stored, Backed
<1>3. ASSUME NEW u \in Thread,
             pc'[u] \in {"put_record", "put_confirm"}, write'[u].status = "granted"
      PROVE  Backed(write[u])'
  <2>1. u # t
    BY <1>3 DEF TypeOK, Return, Goto
  <2> QED
    BY <1>3, <2>1 DEF TypeOK, GateInv, Return, Goto, Backed
<1> QED
  BY <1>2, <1>3 DEF GateInv

LEMMA GateInvStep == TypeOK /\ GateInv /\ [WriteNext]_vars => GateInv'
<1> SUFFICES ASSUME TypeOK, GateInv, [WriteNext]_vars PROVE GateInv'
  OBVIOUS
<1>1. ASSUME NEW t \in Thread, BeginWrite(t)
      PROVE  GateInv'
  <2>1. ASSUME NEW p \in Principal, NEW b \in RecordBodies, BeginRecord(t, p, b)
        PROVE  GateInv'
    <3> DEFINE r == [b EXCEPT !.tenant = TenantOf[p], !.at = now]
    <3>1. Begin(t, p, "put_record", GateStatus(r)) /\ approved' = approved
      BY <2>1 DEF BeginRecord
    <3>2. r \in RecordRow
      BY <2>1, BodyAssumption DEF BeginRecord, Begin, RecordRow, Instant, TypeOK, WritesTypeOK
    <3>3. GateStatus(r).status = "granted" => SelfEvidencing(GateStatus(r))
      BY <3>2, GatedGrantsAreEvidenced
    <3> HIDE DEF r
    <3> QED
      BY <3>1, <3>3, GateInvBegin
  <2>2. ASSUME NEW p \in Principal, NEW i \in Id, NEW approve \in BOOLEAN,
               BeginConfirm(t, p, i, approve)
        PROVE  GateInv'
    <3> DEFINE r == records[i]
    <3>1. /\ r \in RecordRow /\ r.status = "pending_review"
          /\ Begin(t, p, "put_confirm", Promoted(r, approve))
          /\ approved' = IF approve THEN approved \cup {r} ELSE approved
      BY <2>2 DEF BeginConfirm, MayConfirm, TypeOK, WritesTypeOK, StoreTypeOK
    <3>2. Promoted(r, approve).status = "granted" => approve
      BY <3>1 DEF Promoted, RecordRow
    <3>3. Promoted(r, approve).status = "granted"
          => AsStated(Promoted(r, approve)) \in approved'
      <4>1. AsStated(Promoted(r, approve)) = r
        BY <3>1, PromotedType
      <4> QED
        BY <3>1, <3>2, <4>1
    <3> HIDE DEF r
    <3> QED
      BY <3>1, <3>3, GateInvBegin
  <2>3. ASSUME NEW p \in Principal, NEW step, NEW row, Begin(t, p, step, row),
               step \notin {"put_record", "put_confirm"}, approved' = approved
        PROVE  GateInv'
    BY <2>3, GateInvBegin
  <2>4. ASSUME NEW p \in Principal, NEW i \in Id, RefuseForeignRead(t, p, i)
        PROVE  GateInv'
    BY <2>4 DEF GateInv, UnevidencedGrantsWereApproved, Stored, Backed, RefuseForeignRead,
                tables, callVars
  <2>5. ASSUME NEW p \in Principal, NEW b,
               \/ BeginPreference(t, p, b)
               \/ BeginSuppression(t, p, b)
               \/ BeginCap(t, p, b)
               \/ BeginSend(t, p, b)
        PROVE  GateInv'
    <3>1. CASE BeginPreference(t, p, b)
      BY <3>1, <2>3 DEF BeginPreference
    <3>2. CASE BeginSuppression(t, p, b)
      BY <3>2, <2>3 DEF BeginSuppression
    <3>3. CASE BeginCap(t, p, b)
      BY <3>3, <2>3 DEF BeginCap
    <3>4. CASE BeginSend(t, p, b)
      BY <3>4, <2>3 DEF BeginSend
    <3> QED
      BY <2>5, <3>1, <3>2, <3>3, <3>4
  <2> QED
    BY <1>1, <2>1, <2>2, <2>4, <2>5 DEF BeginWrite
<1>2. ASSUME NEW t \in Thread, Put(t)
      PROVE  GateInv'
  BY <1>2, GateInvMove DEF Put, PutPreference, PutSuppression, PutCap, RecordSend,
     WriteSteps, RecordSteps, PreferenceSteps, SuppressionSteps, SendSteps
<1>3. ASSUME NEW t \in Thread, Audit(t) \/ CallFails(t) \/ Route(t)
      PROVE  GateInv'
  BY <1>3, GateInvMove DEF Audit, CallFails, Route, tables, WriteSteps, RecordSteps
<1>4. CASE Tick \/ UNCHANGED vars
  BY <1>4 DEF GateInv, UnevidencedGrantsWereApproved, Stored, Backed, Tick, vars, tables, callVars
<1> QED
  BY <1>1, <1>2, <1>3, <1>4 DEF WriteNext

LEMMA GateInvInit == WritesInit => GateInv
BY SeedAssumption DEF WritesInit, StoreInit, GateInv, UnevidencedGrantsWereApproved, Stored

\* The gate holds: no grant is in force in the store unless it carries its
\* own evidence or a checker approved that very statement while it was
\* pending, whatever other calls, retries and failures run between the reads
\* and the writes of record and confirm.
THEOREM GrantsAreGated == WriteSpec => []UnevidencedGrantsWereApproved
<1>1. GateInv => UnevidencedGrantsWereApproved
  BY DEF GateInv
<1> QED
  BY <1>1, GateInvInit, GateInvStep, TypeCorrect, PTL DEF WriteSpec

-----------------------------------------------------------------------------
(* Routing follows the audit trail.                                        *)

EscalationAudited(i) ==
    \E e \in audit : e.action = "consent_record" /\ e.id = i /\ e.status = "pending_review"

\* What a thread is about to route is audited already.
RouteInv ==
    /\ RoutedWasAudited
    /\ \A t \in Thread : pc[t] = "route" => EscalationAudited(write[t].id)

LEMMA RouteInvStep == TypeOK /\ RouteInv /\ [WriteNext]_vars => RouteInv'
<1> SUFFICES ASSUME TypeOK, RouteInv, [WriteNext]_vars PROVE RouteInv'
  OBVIOUS
<1>1. ASSUME NEW t \in Thread, NEW p, NEW step, NEW row, Begin(t, p, step, row),
             step # "route"
      PROVE  RouteInv'
  BY <1>1 DEF TypeOK, RouteInv, RoutedWasAudited, EscalationAudited, Begin
<1>2. ASSUME NEW t \in Thread, BeginWrite(t)
      PROVE  RouteInv'
  <2>1. ASSUME NEW p \in Principal, NEW i \in Id, RefuseForeignRead(t, p, i)
        PROVE  RouteInv'
    BY <2>1 DEF RouteInv, RoutedWasAudited, EscalationAudited, RefuseForeignRead, callVars
  <2>2. ASSUME NEW p \in Principal, NEW b,
               BeginRecord(t, p, b) \/ BeginPreference(t, p, b) \/ BeginSuppression(t, p, b)
        PROVE  RouteInv'
    BY <2>2, <1>1 DEF BeginRecord, BeginPreference, BeginSuppression
  <2>3. ASSUME NEW p \in Principal, NEW b, BeginCap(t, p, b) \/ BeginSend(t, p, b)
        PROVE  RouteInv'
    BY <2>3, <1>1 DEF BeginCap, BeginSend
  <2>4. ASSUME NEW p \in Principal, NEW i \in Id, NEW approve \in BOOLEAN,
               BeginConfirm(t, p, i, approve)
        PROVE  RouteInv'
    BY <2>4, <1>1 DEF BeginConfirm
  <2> QED
    BY <1>2, <2>1, <2>2, <2>3, <2>4 DEF BeginWrite
<1>3. ASSUME NEW t \in Thread, Put(t) \/ CallFails(t)
      PROVE  RouteInv'
  BY <1>3 DEF TypeOK, RouteInv, RoutedWasAudited, EscalationAudited, Put, CallFails, Goto, Return
<1>4. ASSUME NEW t \in Thread, Audit(t)
      PROVE  RouteInv'
  <2>1. \A i : EscalationAudited(i) => EscalationAudited(i)'
    BY <1>4 DEF EscalationAudited, Audit
  <2>2. RoutedWasAudited'
    BY <1>4, <2>1 DEF RouteInv, RoutedWasAudited, EscalationAudited, Audit
  <2>3. ASSUME NEW u \in Thread, pc'[u] = "route"
        PROVE  EscalationAudited(write[u].id)'
    <3>1. CASE u = t
      <4>1. pc[t] = "audit_record" /\ write[t].status = "pending_review" /\ Goto(t, "route")
        BY <1>4, <2>3, <3>1 DEF TypeOK, Audit, Return
      <4>2. Audited(t) \in audit'
        BY <1>4 DEF Audit
      <4>3. /\ Audited(t).action = "consent_record" /\ Audited(t).id = write[t].id
            /\ Audited(t).status = "pending_review"
        BY <4>1 DEF Audited, ActionOf, RecordSteps
      <4> QED
        BY <3>1, <4>1, <4>2, <4>3 DEF EscalationAudited, Goto
    <3>2. CASE u # t
      BY <1>4, <2>1, <2>3, <3>2 DEF TypeOK, RouteInv, Audit, Goto, Return
    <3> QED
      BY <3>1, <3>2
  <2> QED
    BY <2>2, <2>3 DEF RouteInv
<1>5. ASSUME NEW t \in Thread, Route(t)
      PROVE  RouteInv'
  <2>1. RoutedWasAudited'
    BY <1>5 DEF RouteInv, RoutedWasAudited, EscalationAudited, Route
  <2>2. \A u \in Thread : pc'[u] = "route" => EscalationAudited(write[u].id)'
    BY <1>5 DEF TypeOK, RouteInv, EscalationAudited, Route, Return
  <2> QED
    BY <2>1, <2>2 DEF RouteInv
<1>6. CASE Tick \/ UNCHANGED vars
  BY <1>6 DEF RouteInv, RoutedWasAudited, EscalationAudited, Tick, vars, callVars
<1> QED
  BY <1>2, <1>3, <1>4, <1>5, <1>6 DEF WriteNext

\* The console never holds a statement the audit trail does not: an audit
\* write that raises ends the call before it routes.
THEOREM RoutingFollowsAudit == WriteSpec => []RoutedWasAudited
<1>1. WritesInit => RouteInv
  BY DEF WritesInit, RouteInv, RoutedWasAudited
<1>2. RouteInv => RoutedWasAudited
  BY DEF RouteInv
<1> QED
  BY <1>1, <1>2, RouteInvStep, TypeCorrect, PTL DEF WriteSpec

-----------------------------------------------------------------------------
(* The refinement of GrantGate.                                            *)

Position(i) ==
    IF records[i] = None THEN None
    ELSE [state |-> StateOf[records[i].status], of |-> AsStated(records[i])]

position == [i \in Id |-> Position(i)]

\* A record says one thing about one statement.
LEMMA StandingOfRecord ==
    ASSUME NEW r \in RecordRow
    PROVE  /\ AsStated(r) \in Statements
           /\ SelfEvidencing(r) => SelfEvidencing(AsStated(r))
           /\ r.status = "granted"        => StateOf[r.status] = "in_force"
           /\ r.status = "pending_review" => StateOf[r.status] = "pending" /\ AsStated(r) = r
           /\ r.status \in {"withdrawn", "unknown"} => StateOf[r.status] = "closed"
           /\ r.status \in Status
<1>1. AsStated(r) \in Statements /\ (SelfEvidencing(r) => SelfEvidencing(AsStated(r)))
  BY DEF AsStated, Statements, RecordRow, Status, SelfEvidencing
<1>2. r.status = "pending_review" => AsStated(r) = r
  BY DEF AsStated, RecordRow
<1> QED
  BY <1>1, <1>2 DEF StateOf, RecordRow

\* Putting a record that is no unbacked grant is a step of GrantGate.
LEMMA PutRefines ==
    ASSUME TypeOK, NEW w \in RecordRow, PutRecord(w), UNCHANGED approved,
           w.status = "granted" => Backed(w)
    PROVE  Gate!Next
<1> DEFINE i == w.id
           state == StateOf[w.status]
<1>1. i \in Id
  BY DEF RecordRow
<1>2. /\ records' = [records EXCEPT ![i] = w]
      /\ w # None
  BY NoneIsNoRow DEF PutRecord
<1>3. position'[i] = [state |-> state, of |-> AsStated(w)]
  BY <1>1, <1>2 DEF position, Position, TypeOK, WritesTypeOK, StoreTypeOK
<1>4. position' = [position EXCEPT ![i] = position'[i]]
  <2>1. \A k \in Id : k # i => Position(k)' = Position(k)
    BY <1>1, <1>2 DEF Position, TypeOK, WritesTypeOK, StoreTypeOK
  <2> QED
    BY <1>1, <2>1 DEF position
<1>5. Gate!Stand(i, state)
  BY <1>3, <1>4, StandingOfRecord DEF Gate!Stand, position, Position
<1>6. CASE w.status = "pending_review"
  BY <1>1, <1>5, <1>6, StandingOfRecord DEF Gate!Next, Gate!Assert
<1>7. CASE w.status \in {"withdrawn", "unknown"}
  BY <1>1, <1>5, <1>7, StandingOfRecord DEF Gate!Next, Gate!Close
<1>8. CASE w.status = "granted" /\ SelfEvidencing(w)
  BY <1>1, <1>3, <1>5, <1>8, StandingOfRecord DEF Gate!Next, Gate!Prove, position, Position
<1>9. CASE w.status = "granted" /\ AsStated(w) \in approved
  BY <1>1, <1>3, <1>5, <1>9, StandingOfRecord DEF Gate!Next, Gate!TakeEffect, position, Position
<1> QED
  BY <1>6, <1>7, <1>8, <1>9, StandingOfRecord DEF Backed, Status

LEMMA ServiceInitRefines == WritesInit => Gate!Init
<1> SUFFICES ASSUME WritesInit PROVE Gate!Init
  OBVIOUS
<1>1. records \in [Id -> RecordRow \cup {None}]
      /\ \A i \in Id : records[i] # None /\ records[i].status = "granted"
                       => SelfEvidencing(records[i])
  BY SeedAssumption DEF WritesInit, StoreInit
<1> DEFINE Evidenced == {r \in Statements : SelfEvidencing(r)}
<1>2. ASSUME NEW i \in Id
      PROVE  /\ Position(i) \in Gate!Standing \cup {None}
             /\ position[i] = Position(i)
             /\ Gate!InForce(i) => position[i].of \in Evidenced
  <2>1. position[i] = Position(i)
    BY DEF position
  <2>2. CASE records[i] = None
    <3>1. Position(i) = None
      BY <2>2 DEF Position
    <3> QED
      BY <2>1, <2>2, <3>1 DEF Gate!InForce, position, Position
  <2>3. CASE records[i] # None
    <3>1. records[i] \in RecordRow
      BY <1>1, <2>3
    <3>2. /\ Position(i) = [state |-> StateOf[records[i].status], of |-> AsStated(records[i])]
          /\ Position(i).state = StateOf[records[i].status]
          /\ Position(i).of = AsStated(records[i])
      BY <2>3 DEF Position
    <3>3. Position(i) \in Gate!Standing
      BY <3>1, <3>2, StandingOfRecord DEF Gate!Standing, Status
    <3>4. ASSUME StateOf[records[i].status] = "in_force"
          PROVE  AsStated(records[i]) \in Evidenced
      <4>1. records[i].status = "granted"
        BY <3>1, <3>4, StandingOfRecord DEF Status
      <4> QED
        BY <1>1, <2>3, <3>1, <4>1, StandingOfRecord
    <3>5. Gate!InForce(i) => StateOf[records[i].status] = "in_force"
      BY <2>3 DEF Gate!InForce
    <3> HIDE DEF Evidenced
    <3> QED
      BY <2>1, <3>2, <3>3, <3>4, <3>5
  <2> QED
    BY <2>2, <2>3
<1>3. position \in [Id -> Gate!Standing \cup {None}]
  <2>1. position = [i \in Id |-> Position(i)]
    BY DEF position
  <2> HIDE DEF Position
  <2> QED
    BY <1>2, <2>1
<1>4. \A i \in Id : Gate!InForce(i) => position[i].of \in Evidenced
  BY <1>2
<1> QED
  BY <1>3, <1>4 DEF Gate!Init, position, Position, WritesInit

LEMMA ServiceStepRefines ==
    TypeOK /\ GateInv /\ [WriteNext]_vars => [Gate!Next]_(Gate!gateVars)
<1> SUFFICES ASSUME TypeOK, GateInv, [WriteNext]_vars
             PROVE  [Gate!Next]_(Gate!gateVars)
  OBVIOUS
<1>1. ASSUME UNCHANGED <<records, approved>>
      PROVE  UNCHANGED Gate!gateVars
  BY <1>1 DEF Gate!gateVars
<1>2. ASSUME NEW t \in Thread, NEW p \in Principal, NEW i \in Id, NEW approve \in BOOLEAN,
             BeginConfirm(t, p, i, approve)
      PROVE  [Gate!Next]_(Gate!gateVars)
  <2>1. /\ records[i] \in RecordRow /\ records[i] # None /\ records[i].status = "pending_review"
        /\ records' = records
        /\ approved' = IF approve THEN approved \cup {records[i]} ELSE approved
    BY <1>2 DEF BeginConfirm, MayConfirm, Begin, tables, TypeOK, WritesTypeOK, StoreTypeOK
  <2>2. CASE approve
    <3>1. Position(i) = [state |-> "pending", of |-> records[i]]
      BY <2>1, StandingOfRecord DEF Position
    <3>2. Position(i) # None
      <4>1. records[i] \in Statements
        BY <2>1 DEF Statements
      <4> QED
        BY <3>1, <4>1, NoneIsNoStanding DEF Gate!Standing
    <3>3. position[i] = Position(i) /\ UNCHANGED position
      BY <2>1 DEF position, Position
    <3>4. Gate!Approve(i)
      BY <2>1, <2>2, <3>1, <3>2, <3>3 DEF Gate!Approve, position, Position
    <3> QED
      BY <3>4 DEF Gate!Next
  <2>3. CASE ~approve
    BY <2>1, <2>3, <1>1
  <2> QED
    BY <2>2, <2>3
<1>3. ASSUME NEW t \in Thread, BeginWrite(t),
             \A p \in Principal, i \in Id, approve \in BOOLEAN : ~BeginConfirm(t, p, i, approve)
      PROVE  UNCHANGED <<records, approved>>
  <2>1. ASSUME NEW p \in Principal, NEW b,
               \/ BeginRecord(t, p, b)
               \/ BeginPreference(t, p, b)
               \/ BeginSuppression(t, p, b)
               \/ BeginCap(t, p, b)
               \/ BeginSend(t, p, b)
        PROVE  UNCHANGED <<records, approved>>
    BY <2>1 DEF BeginRecord, BeginPreference, BeginSuppression, BeginCap, BeginSend, Begin, tables
  <2>2. ASSUME NEW p \in Principal, NEW i \in Id, RefuseForeignRead(t, p, i)
        PROVE  UNCHANGED <<records, approved>>
    BY <2>2 DEF RefuseForeignRead, tables
  <2> QED
    BY <1>3, <2>1, <2>2 DEF BeginWrite
<1>4. ASSUME NEW t \in Thread, Put(t)
      PROVE  [Gate!Next]_(Gate!gateVars)
  <2>1. CASE pc[t] \in {"put_record", "put_confirm"} /\ PutRecord(write[t])
    <3>1. write[t] \in RecordRow /\ (write[t].status = "granted" => Backed(write[t]))
      BY <2>1 DEF TypeOK, WritesTypeOK, WriteTypeOK, RecordSteps, GateInv
    <3>2. UNCHANGED approved
      BY <1>4 DEF Put
    <3> QED
      BY <2>1, <3>1, <3>2, PutRefines
  <2>2. CASE UNCHANGED <<records, approved>>
    BY <2>2, <1>1
  <2> QED
    BY <1>4, <2>1, <2>2 DEF Put, PutPreference, PutSuppression, PutCap, RecordSend
<1>5. ASSUME NEW t \in Thread, Audit(t) \/ CallFails(t) \/ Route(t)
      PROVE  UNCHANGED <<records, approved>>
  BY <1>5 DEF Audit, CallFails, Route, tables
<1>6. CASE Tick \/ UNCHANGED vars
  BY <1>6, <1>1 DEF Tick, vars, tables
<1> QED
  BY <1>1, <1>2, <1>3, <1>4, <1>5, <1>6 DEF WriteNext

\* The service is an implementation of the gate GrantGate promises: its calls,
\* threads, tenants and failures add nothing that asserts, approves, gives
\* effect to or closes a statement in any other way.
THEOREM ServiceImplementsGate == WriteSpec => ImplementsGrantGate
BY ServiceInitRefines, ServiceStepRefines, TypeCorrect, GateInvInit, GateInvStep, PTL
   DEF WriteSpec, ImplementsGrantGate, Gate!Spec

-----------------------------------------------------------------------------
(* The refinement of HandOff.                                              *)

PendingIn(events) ==
    {e.id : e \in {a \in events : a.action = "consent_record" /\ a.status = "pending_review"}}

IdsOf(rows) == {r.id : r \in rows}

due == [t \in Thread |-> Due(t)]

\* Steps that audit no pending grant and submit nothing.
LEMMA NothingHandedOver ==
    ASSUME PendingIn(audit)' = PendingIn(audit), UNCHANGED <<console, due>>
    PROVE  UNCHANGED Promise!handOffVars
BY DEF Promise!handOffVars, PendingIn, due

\* A thread that neither comes to route a grant nor has one to route.
LEMMA NoGrantDue ==
    ASSUME NEW t \in Thread, pc[t] # "route", pc'[t] # "route",
           \A u \in Thread : u # t => pc'[u] = pc[u] /\ write'[u] = write[u]
    PROVE  UNCHANGED due
<1>1. ASSUME NEW u \in Thread
      PROVE  Due(u)' = Due(u)
  BY DEF Due
<1> QED
  BY <1>1 DEF due

LEMMA BeginHandsNothing ==
    ASSUME TypeOK, NEW t \in Thread, BeginWrite(t)
    PROVE  UNCHANGED Promise!handOffVars
<1>1. ASSUME NEW p, NEW step, NEW row, Begin(t, p, step, row), step # "route"
      PROVE  UNCHANGED Promise!handOffVars
  <2>1. /\ pc[t] = "idle" /\ pc'[t] # "route" /\ UNCHANGED <<audit, console>>
        /\ \A u \in Thread : u # t => pc'[u] = pc[u] /\ write'[u] = write[u]
    BY <1>1 DEF TypeOK, Begin
  <2> QED
    BY <2>1, NoGrantDue, NothingHandedOver
<1>2. ASSUME NEW p \in Principal, NEW i \in Id, RefuseForeignRead(t, p, i)
      PROVE  UNCHANGED Promise!handOffVars
  <2>1. PendingIn(audit)' = PendingIn(audit)
    BY <1>2 DEF PendingIn, RefuseForeignRead
  <2> QED
    BY <1>2, <2>1, NothingHandedOver DEF RefuseForeignRead, callVars, due, Due
<1>3. ASSUME NEW p \in Principal, NEW b,
             \/ BeginRecord(t, p, b) \/ BeginPreference(t, p, b) \/ BeginSuppression(t, p, b)
             \/ BeginCap(t, p, b) \/ BeginSend(t, p, b)
      PROVE  UNCHANGED Promise!handOffVars
  <2>1. ASSUME BeginRecord(t, p, b) \/ BeginPreference(t, p, b) \/ BeginSuppression(t, p, b)
        PROVE  UNCHANGED Promise!handOffVars
    BY <2>1, <1>1 DEF BeginRecord, BeginPreference, BeginSuppression
  <2>2. ASSUME BeginCap(t, p, b) \/ BeginSend(t, p, b)
        PROVE  UNCHANGED Promise!handOffVars
    BY <2>2, <1>1 DEF BeginCap, BeginSend
  <2> QED
    BY <1>3, <2>1, <2>2
<1>4. ASSUME NEW p \in Principal, NEW i \in Id, NEW approve \in BOOLEAN,
             BeginConfirm(t, p, i, approve)
      PROVE  UNCHANGED Promise!handOffVars
  BY <1>1, <1>4 DEF BeginConfirm
<1> QED
  BY <1>2, <1>3, <1>4 DEF BeginWrite

\* The audit record of a grant that needs a checker is its escalation; that of
\* any other write escalates nothing.
LEMMA AuditHandsOver ==
    ASSUME TypeOK, NEW t \in Thread, Audit(t)
    PROVE  [Promise!Next]_(Promise!handOffVars)
<1>1. /\ pc[t] \in AuditSteps /\ pc[t] # "route"
      /\ audit' = audit \cup {Audited(t)} /\ UNCHANGED console
  BY DEF Audit, AuditSteps, ActionOf
<1>2. CASE pc[t] = "audit_record" /\ write[t].status = "pending_review"
  <2>1. /\ Audited(t).action = "consent_record" /\ Audited(t).id = write[t].id
        /\ Audited(t).status = "pending_review"
    BY <1>2 DEF Audited, ActionOf, RecordSteps
  <2>2. PendingIn(audit)' = PendingIn(audit) \cup {write[t].id}
    BY <1>1, <2>1 DEF PendingIn
  <2>3. due[t] = {}
    BY <1>1 DEF due, Due
  <2>4. due' = [due EXCEPT ![t] = {write[t].id}]
    <3>1. pc' = [pc EXCEPT ![t] = "route"] /\ UNCHANGED write
      BY <1>2 DEF Audit, Goto
    <3>2. Due(t)' = {write[t].id} /\ \A u \in Thread : u # t => Due(u)' = Due(u)
      BY <3>1 DEF TypeOK, Due
    <3> QED
      BY <3>2 DEF due
  <2>5. write[t].id \in Id
    BY <1>2 DEF TypeOK, WritesTypeOK, WriteTypeOK, RecordSteps, RecordRow
  <2>6. Promise!Escalate(t, write[t].id)
    BY <1>1, <2>2, <2>3, <2>4 DEF Promise!Escalate, PendingIn, due
  <2> QED
    BY <2>5, <2>6 DEF Promise!Next, Promise!Escalate
<1>3. CASE ~(pc[t] = "audit_record" /\ write[t].status = "pending_review")
  <2>1. Audited(t).action # "consent_record" \/ Audited(t).status # "pending_review"
    BY <1>1, <1>3 DEF Audited, ActionOf, AuditSteps, RecordSteps
  <2>2. PendingIn(audit)' = PendingIn(audit)
    BY <1>1, <2>1 DEF PendingIn
  <2>3. /\ pc'[t] # "route"
        /\ \A u \in Thread : u # t => pc'[u] = pc[u] /\ write'[u] = write[u]
    BY <1>3 DEF TypeOK, Audit, Return
  <2> QED
    BY <1>1, <2>2, <2>3, NoGrantDue, NothingHandedOver
<1> QED
  BY <1>2, <1>3

LEMMA RouteHandsOver ==
    ASSUME TypeOK, NEW t \in Thread, Route(t)
    PROVE  Promise!Next
<1>1. /\ pc[t] = "route" /\ pc'[t] = "idle" /\ UNCHANGED audit
      /\ \A u \in Thread : u # t => pc'[u] = pc[u] /\ write'[u] = write[u]
      /\ console' \in {console, console \cup {write[t]}}
  BY DEF TypeOK, Route, Return
<1>2. due[t] = {write[t].id}
  BY <1>1 DEF due, Due
<1>3. due' = [due EXCEPT ![t] = {}]
  <2>1. Due(t)' = {} /\ \A u \in Thread : u # t => Due(u)' = Due(u)
    BY <1>1 DEF Due
  <2> QED
    BY <2>1 DEF due
<1>4. IdsOf(console)' \in {IdsOf(console), IdsOf(console) \cup due[t]}
  BY <1>1, <1>2 DEF IdsOf
<1>5. Promise!Attempt(t)
  BY <1>1, <1>2, <1>3, <1>4 DEF Promise!Attempt, IdsOf, due
<1> QED
  BY <1>5 DEF Promise!Next

LEMMA ServiceHandsOver ==
    TypeOK /\ [WriteNext]_vars => [Promise!Next]_(Promise!handOffVars)
<1> SUFFICES ASSUME TypeOK, [WriteNext]_vars
             PROVE  [Promise!Next]_(Promise!handOffVars)
  OBVIOUS
<1>1. ASSUME NEW t \in Thread, Put(t) \/ CallFails(t)
      PROVE  UNCHANGED Promise!handOffVars
  <2>1. /\ pc[t] # "route" /\ pc'[t] # "route" /\ UNCHANGED <<audit, console>>
        /\ \A u \in Thread : u # t => pc'[u] = pc[u] /\ write'[u] = write[u]
    BY <1>1 DEF TypeOK, Put, CallFails, PutSteps, AuditSteps, ActionOf, Goto, Return
  <2> QED
    BY <2>1, NoGrantDue, NothingHandedOver
<1>2. CASE Tick \/ UNCHANGED vars
  BY <1>2, NothingHandedOver DEF Tick, vars, callVars, PendingIn, due, Due
<1> QED
  BY <1>1, <1>2, BeginHandsNothing, AuditHandsOver, RouteHandsOver DEF WriteNext

\* The service is an implementation of HandOff: for any threads, callers and
\* bodies, and wherever a call fails, a grant that needs a checker is in the
\* trail before it is submitted, is submitted once and as itself, and nothing
\* else ever reaches the console.
THEOREM ServiceImplementsHandOff == WriteSpec => ImplementsHandOff
<1>1. WritesInit => Promise!Init
  BY DEF WritesInit, Promise!Init, Due
<1> QED
  BY <1>1, ServiceHandsOver, TypeCorrect, PTL DEF WriteSpec, ImplementsHandOff, Promise!Spec

-----------------------------------------------------------------------------
(* The engine: what an allowed contact rests on.                           *)

Exceeds(q, rows, sent) == "frequency_cap_exceeded" \in CapReasons(q, rows, sent)

OptedIn(q, rows) == "channel_opted_in" \in PreferenceReasons(q, rows)

Suppressed(q, rows, t) == "suppressed" \in SuppressionReasons(q, rows, t)

\* Whatever a grant's row says, one reason comes of it, and all but one deny.
LEMMA GrantedOrDenied ==
    ASSUME NEW p, NEW rows, NEW t, ResolveGrant(p, rows, t) \cap DenyingReasons = {}
    PROVE  Granted(p, rows, t)
<1>1. ASSUME NEW r
      PROVE  GrantReason(r, t) = "consent_granted" \/ GrantReason(r, t) \in DenyingReasons
  BY DEF GrantReason, WindowReason, DenyingReasons
<1>2. "consent_unknown" \in DenyingReasons
  BY DEF DenyingReasons
<1> QED
  BY <1>1, <1>2 DEF ResolveGrant, Granted

\* An allowed contact has a grant, an opt-in, no suppression and room.
LEMMA AllowedNeeds ==
    ASSUME NEW q, NEW snap, NEW t, NEW rules, NEW sent, Allowed(q, snap, t, rules, sent)
    PROVE  /\ Granted(q.purpose, snap.records, t)
           /\ OptedIn(q, snap.preferences)
           /\ ~Suppressed(q, snap.suppressions, t)
           /\ ~Exceeds(q, snap.caps, sent)
<1>1. AnswerableReasons(q, snap) = {}
  <2>1. AnswerableReasons(q, snap) \subseteq DenyingReasons
    BY DEF AnswerableReasons, Unresolved, DenyingReasons
  <2> QED
    BY <2>1 DEF Allowed, Reasons
<1>2. Granted(q.purpose, snap.records, t)
  BY <1>1, GrantedOrDenied DEF Allowed, Reasons
<1>3. PreferenceReasons(q, snap.preferences) \cap DenyingReasons = {}
  BY DEF Allowed, Reasons
<1>4. OptedIn(q, snap.preferences)
  BY <1>3 DEF OptedIn, PreferenceReasons, DenyingReasons
<1>5. "suppressed" \in DenyingReasons /\ "frequency_cap_exceeded" \in DenyingReasons
  BY DEF DenyingReasons
<1> QED
  BY <1>2, <1>4, <1>5 DEF Suppressed, Exceeds, Allowed, Reasons

\* Fewer sends leave as much room under the cap.
LEMMA FewerSendsFit ==
    ASSUME NEW q, NEW rows, rows \subseteq CapRow, NEW m \in Nat, NEW n \in Nat, m <= n,
           ~Exceeds(q, rows, n)
    PROVE  ~Exceeds(q, rows, m)
<1>1. \A c \in SelectedCap(q, rows) : c.max \in Nat
  BY DEF SelectedCap, ApplicableCaps, CapRow
<1>2. CASE ApplicableCaps(q, rows) = {}
  BY <1>2 DEF Exceeds, CapReasons
<1>3. CASE ApplicableCaps(q, rows) # {}
  <2>1. \A c \in SelectedCap(q, rows) : ~(n >= c.max)
    BY <1>3 DEF Exceeds, CapReasons
  <2>2. \A c \in SelectedCap(q, rows) : ~(m >= c.max)
    BY <1>1, <2>1
  <2> QED
    BY <1>3, <2>2 DEF Exceeds, CapReasons
<1> QED
  BY <1>2, <1>3

\* So a contact allowed with some sends on file is allowed with fewer.
LEMMA FewerSendsAllow ==
    ASSUME NEW q, NEW snap, snap.caps \subseteq CapRow, NEW t, NEW rules,
           NEW m \in Nat, NEW n \in Nat, m <= n, Allowed(q, snap, t, rules, n)
    PROVE  Allowed(q, snap, t, rules, m)
<1>1. ~Exceeds(q, snap.caps, m)
  BY AllowedNeeds, FewerSendsFit
<1>2. CapReasons(q, snap.caps, m) \cap DenyingReasons = {}
  BY <1>1 DEF Exceeds, CapReasons, DenyingReasons
<1> QED
  BY <1>2 DEF Allowed, Reasons

-----------------------------------------------------------------------------
(* Type correctness.                                                       *)

AllSteps == WriteSteps \cup DecisionSteps \cup {"idle"}

\* DecisionTypeOK, with the domains of what is kept per thread, a view as soon as
\* there is one, and finitely many sends.
DecisionTyped ==
    /\ Typed /\ DecisionTypeOK
    /\ pc \in [Thread -> AllSteps]
    /\ DOMAIN question = Thread /\ DOMAIN view = Thread
    /\ DOMAIN tally = Thread /\ DOMAIN outcome = Thread
    /\ \A t \in Thread : pc[t] \in DecisionSteps \ {"read_records"} => view[t] \in SnapshotType
    /\ IsFiniteSet({i \in Id : sends[i] # None})

LEMMA StepsApart == WriteSteps \cap DecisionSteps = {} /\ "idle" \notin WriteSteps \cup DecisionSteps
BY DEF WriteSteps, DecisionSteps, RecordSteps, PreferenceSteps, SuppressionSteps, SendSteps

\* What is counted is a set of ids of stored sends.
LEMMA CountIsNat ==
    ASSUME IsFiniteSet({i \in Id : sends[i] # None}), NEW q, NEW rows, NEW t
    PROVE  /\ IsFiniteSet(SentInWindow(q, rows, t))
           /\ SendsInWindow(q, rows, t) \in Nat
<1>1. \A since : SentSince(q, since) \subseteq {i \in Id : sends[i] # None}
  BY DEF SentSince, OfSubject, Stored
<1>2. SentInWindow(q, rows, t) \subseteq {i \in Id : sends[i] # None}
  BY <1>1 DEF SentInWindow
<1>3. IsFiniteSet(SentInWindow(q, rows, t))
  BY <1>2, FS_Subset
<1> QED
  BY <1>3, FS_CardinalityType DEF SendsInWindow

\* A snapshot of well-formed tables is one.
LEMMA SnapshotIsTyped ==
    ASSUME StoreTypeOK, NEW tenant \in Tenant, NEW subject \in Subject \cup {Blank}
    PROVE  Snapshot(tenant, subject) \in SnapshotType
<1>1. /\ OfSubject(records, tenant, subject) \subseteq RecordRow
      /\ OfSubject(preferences, tenant, subject) \subseteq PreferenceRow
      /\ OfSubject(suppressions, tenant, subject) \subseteq SuppressionRow
      /\ CapsOf(tenant, subject) \subseteq CapRow
  BY DEF StoreTypeOK, OfSubject, CapsOf, Stored
<1> QED
  BY <1>1 DEF Snapshot, SnapshotType

\* The writes add a send at a time.
LEMMA SendsStayFinite ==
    ASSUME IsFiniteSet({i \in Id : sends[i] # None}), NEW s, sends' = [sends EXCEPT ![s] = sends'[s]],
           DOMAIN sends = Id
    PROVE  IsFiniteSet({i \in Id : sends[i] # None})'
<1>1. {i \in Id : sends'[i] # None} \subseteq {i \in Id : sends[i] # None} \cup {s}
  OBVIOUS
<1> QED
  BY <1>1, FS_AddElement, FS_Subset

\* A step of a write leaves every thread that decides where it is.
LEMMA DecidersRest ==
    ASSUME Typed, [WriteNext]_vars, NEW u \in Thread,
           pc[u] \in DecisionSteps \/ pc'[u] \in DecisionSteps
    PROVE  pc'[u] = pc[u] /\ who'[u] = who[u]
<1> USE DEF WriteSteps, DecisionSteps, RecordSteps, PreferenceSteps, SuppressionSteps, SendSteps
<1>1. ASSUME NEW t \in Thread, BeginWrite(t)
      PROVE  pc'[u] = pc[u] /\ who'[u] = who[u]
  <2>1. \/ UNCHANGED <<pc, who>>
        \/ pc[t] = "idle" /\ \E p \in Principal, step \in WriteSteps : /\ pc' = [pc EXCEPT ![t] = step]
                                                       /\ who' = [who EXCEPT ![t] = p]
    BY <1>1 DEF BeginWrite, BeginRecord, BeginPreference, BeginSuppression, BeginCap,
                BeginSend, BeginConfirm, RefuseForeignRead, Begin, callVars
  <2> QED
    BY <2>1 DEF Typed
<1>2. ASSUME NEW t \in Thread, Put(t) \/ Audit(t) \/ CallFails(t) \/ Route(t)
      PROVE  pc'[u] = pc[u] /\ who'[u] = who[u]
  BY <1>2 DEF Typed, Put, Audit, CallFails, Route, Goto, Return, PutSteps, AuditSteps, ActionOf
<1>3. CASE Tick \/ UNCHANGED vars
  BY <1>3 DEF Tick, vars, callVars
<1> QED
  BY <1>1, <1>2, <1>3 DEF WriteNext

\* Of the sends, a step replaces at most one.
LEMMA SendsOfStep ==
    ASSUME Typed, [WriteNext]_vars, IsFiniteSet({i \in Id : sends[i] # None})
    PROVE  IsFiniteSet({i \in Id : sends[i] # None})'
<1>1. DOMAIN sends = Id
  BY DEF Typed, WritesTypeOK, StoreTypeOK
<1>2. CASE sends' = sends
  BY <1>2
<1>3. CASE \E t \in Thread : Put(t) /\ RecordSend(write[t])
  <2> PICK t \in Thread : RecordSend(write[t])
    BY <1>3
  <2>1. sends' = [sends EXCEPT ![write[t].id] = sends'[write[t].id]]
    BY <1>1 DEF RecordSend
  <2> QED
    BY <1>1, <2>1, SendsStayFinite
<1>4. sends' = sends \/ \E t \in Thread : Put(t) /\ RecordSend(write[t])
  <2>1. ASSUME NEW t \in Thread, Put(t)
        PROVE  sends' = sends \/ RecordSend(write[t])
    BY <2>1 DEF Put, PutRecord, PutPreference, PutSuppression, PutCap
  <2>2. ASSUME NEW t \in Thread, BeginWrite(t) \/ Audit(t) \/ CallFails(t) \/ Route(t)
        PROVE  sends' = sends
    BY <2>2 DEF BeginWrite, BeginRecord, BeginPreference, BeginSuppression, BeginCap, BeginSend,
                BeginConfirm, RefuseForeignRead, Begin, Audit, CallFails, Route, tables
  <2>3. Tick \/ UNCHANGED vars => sends' = sends
    BY DEF Tick, vars, tables
  <2> QED
    BY <2>1, <2>2, <2>3 DEF WriteNext
<1> QED
  BY <1>2, <1>3, <1>4

-----------------------------------------------------------------------------
(* A step of a decision.                                                   *)

\* What no step of a decision touches.
Aside == UNCHANGED <<tables, now, console, approved>>

LEMMA DecideTyped ==
    ASSUME DecisionTyped, NEW t \in Thread, Decide(t)
    PROVE  Typed' /\ pc' \in [Thread -> AllSteps] /\ Aside
<1> USE StepsApart
<1>0. Typed /\ StoreTypeOK' /\ now' \in Nat
      /\ console' \subseteq RecordRow /\ approved' \subseteq RecordRow /\ Aside
  <2>1. Typed /\ StoreTypeOK /\ now \in Nat /\ console \subseteq RecordRow /\ approved \subseteq RecordRow
    BY DEF DecisionTyped, Typed, WritesTypeOK
  <2>2. Aside
    BY DEF Decide, BeginDecision, Begin, ReadSnapshot, ReadCollection, ReadStep, CountWindow,
           Judge, ReadFails, Aside
  <2> QED
    BY <2>1, <2>2 DEF Aside, StoreTypeOK, tables
<1>1. ASSUME NEW p \in Principal, NEW q \in Questions, NEW asOf \in AsOfs, BeginDecision(t, p, q, asOf)
      PROVE  Typed' /\ pc' \in [Thread -> AllSteps]
  <2>1. Begin(t, p, "read_records", None)
    BY <1>1 DEF BeginDecision
  <2>2. "read_records" \in DecisionSteps
    BY DEF DecisionSteps
  <2>3. Typed'
    BY <1>0, <2>1, <2>2, BeginType DEF WriteSteps
  <2> QED
    BY <2>1, <2>2, <2>3 DEF Begin, DecisionTyped, AllSteps
<1>2. ASSUME ReadSnapshot(t) \/ ReadCollection(t) \/ CountWindow(t)
      PROVE  Typed' /\ pc' \in [Thread -> AllSteps]
  <2>1. PICK step \in DecisionSteps : pc' = [pc EXCEPT ![t] = step]
    BY <1>2 DEF ReadSnapshot, ReadCollection, ReadStep, CountWindow, DecisionSteps
  <2>2. UNCHANGED <<calls, who, write, audit>>
    BY <1>2 DEF ReadSnapshot, ReadCollection, ReadStep, CountWindow
  <2>3. \A u \in Thread : WriteTypeOK(u)'
    <3> SUFFICES ASSUME NEW u \in Thread PROVE WriteTypeOK(u)'
      OBVIOUS
    <3>1. CASE u = t
      BY <1>0, <2>1, <3>1 DEF Typed, WriteTypeOK, WriteSteps
    <3>2. CASE u # t
      BY <1>0, <2>1, <2>2, <3>2 DEF Typed, WritesTypeOK, WriteTypeOK
    <3> QED
      BY <3>1, <3>2
  <2> QED
    BY <1>0, <2>1, <2>2, <2>3 DEF Typed, WritesTypeOK, DecisionTyped, AllSteps
<1>3. ASSUME Judge(t) \/ ReadFails(t)
      PROVE  Typed' /\ pc' \in [Thread -> AllSteps]
  <2>1. Return(t) /\ calls' = calls /\ pc[t] \in DecisionSteps
    BY <1>3 DEF Judge, ReadFails, DecisionSteps
  <2>2. calls' \in Nat /\ audit \subseteq Event /\ who[t] \in Principal
    BY <2>1 DEF DecisionTyped, DecisionTypeOK, WritesTypeOK
  <2>3. \A status \in {"allowed", "blocked"} :
           [action |-> "consent_decision", actor |-> who[t], id |-> None, status |-> status] \in Event
    BY <2>2 DEF Event
  <2>4. audit' \subseteq Event
    BY <1>3, <2>2, <2>3 DEF Judge, ReadFails
  <2>5. Typed'
    BY <1>0, <2>1, <2>2, <2>4, MoveType
  <2> QED
    BY <2>1, <2>5 DEF Return, DecisionTyped, AllSteps
<1> QED
  BY <1>0, <1>1, <1>2, <1>3 DEF Decide

\* What a thread keeps of its decision.
KeptTyped(u) ==
    /\ pc[u] \in DecisionSteps => who[u] \in Principal /\ question[u] \in QuestionType
    /\ view[u] \in SnapshotType \cup {None}
    /\ pc[u] \in DecisionSteps \ {"read_records"} => view[u] \in SnapshotType
    /\ tally[u] \in Nat
    /\ outcome[u] \in [allowed: BOOLEAN, rules: RuleOutcomes] \cup {None}

Kept == <<question, view, tally, outcome>>

KeptDomains ==
    /\ DOMAIN question = Thread /\ DOMAIN view = Thread
    /\ DOMAIN tally = Thread /\ DOMAIN outcome = Thread

\* A decision keeps its own and nobody else's.
LEMMA DecideKeeps ==
    ASSUME DecisionTyped, NEW t \in Thread, Decide(t), NEW u \in Thread, u # t
    PROVE  /\ pc'[u] = pc[u] /\ who'[u] = who[u] /\ question'[u] = question[u]
           /\ view'[u] = view[u] /\ tally'[u] = tally[u] /\ outcome'[u] = outcome[u]
<1>1. KeptDomains /\ DOMAIN pc = Thread /\ DOMAIN who = Thread
  BY DEF DecisionTyped, Typed, KeptDomains
<1>2. \A p \in Principal, q \in Questions, asOf \in AsOfs : BeginDecision(t, p, q, asOf) =>
        /\ pc'[u] = pc[u] /\ who'[u] = who[u] /\ question'[u] = question[u]
        /\ view'[u] = view[u] /\ tally'[u] = tally[u] /\ outcome'[u] = outcome[u]
  BY <1>1 DEF KeptDomains, BeginDecision, Begin
<1>3. ReadSnapshot(t) \/ ReadCollection(t) =>
        /\ pc'[u] = pc[u] /\ who'[u] = who[u] /\ question'[u] = question[u]
        /\ view'[u] = view[u] /\ tally'[u] = tally[u] /\ outcome'[u] = outcome[u]
  BY <1>1 DEF KeptDomains, ReadSnapshot, ReadCollection, ReadStep
<1>4. CountWindow(t) =>
        /\ pc'[u] = pc[u] /\ who'[u] = who[u] /\ question'[u] = question[u]
        /\ view'[u] = view[u] /\ tally'[u] = tally[u] /\ outcome'[u] = outcome[u]
  BY <1>1 DEF KeptDomains, CountWindow
<1>5. Judge(t) \/ ReadFails(t) =>
        /\ pc'[u] = pc[u] /\ who'[u] = who[u] /\ question'[u] = question[u]
        /\ view'[u] = view[u] /\ tally'[u] = tally[u] /\ outcome'[u] = outcome[u]
  BY <1>1 DEF KeptDomains, Judge, ReadFails, Return
<1> QED
  BY <1>2, <1>3, <1>4, <1>5 DEF Decide

LEMMA DecideKeepsTypes ==
    ASSUME DecisionTyped, NEW t \in Thread, Decide(t)
    PROVE  KeptDomains' /\ \A u \in Thread : KeptTyped(u)'
<1>1. KeptDomains /\ \A u \in Thread : KeptTyped(u)
  BY DEF DecisionTyped, DecisionTypeOK, KeptDomains, KeptTyped
<1>2. KeptDomains'
  BY <1>1 DEF KeptDomains, Decide, BeginDecision, ReadSnapshot, ReadCollection, ReadStep,
              CountWindow, Judge, ReadFails
<1>3. ASSUME NEW u \in Thread, u # t
      PROVE  KeptTyped(u)'
  BY <1>1, <1>3, DecideKeeps DEF KeptTyped
<1>4. DOMAIN pc = Thread /\ DOMAIN who = Thread /\ StoreTypeOK /\ now \in Nat
  BY DEF DecisionTyped, Typed, WritesTypeOK
<1>5. ASSUME NEW p \in Principal, NEW q \in Questions, NEW asOf \in AsOfs,
             BeginDecision(t, p, q, asOf)
      PROVE  KeptTyped(t)'
  <2>1. TenantOf[p] \in Tenant /\ pc'[t] = "read_records" /\ who'[t] = p
    BY <1>4, <1>5, BodyAssumption DEF BeginDecision, Begin
  <2>2. asOf = None \/ asOf \in Instant
    BY QuestionAssumption DEF Moment
  <2>3. question'[t] \in QuestionType
    BY <1>1, <1>4, <1>5, <2>1, <2>2, QuestionAssumption DEF KeptDomains, BeginDecision, QuestionType, Instant
  <2> QED
    BY <1>1, <1>5, <2>1, <2>3 DEF KeptDomains, BeginDecision, KeptTyped
<1>6. ASSUME ReadSnapshot(t) \/ ReadCollection(t)
      PROVE  KeptTyped(t)'
  <2> DEFINE snap == Snapshot(question[t].tenant, question[t].subject)
  <2>1. pc[t] \in DecisionSteps
    BY <1>6 DEF ReadSnapshot, ReadCollection, ReadStep, DecisionSteps
  <2>2. question[t] \in QuestionType /\ who[t] \in Principal
    BY <1>1, <2>1 DEF KeptTyped
  <2>3. snap \in SnapshotType
    BY <1>4, <2>2, SnapshotIsTyped DEF QuestionType
  <2>4. pc[t] # "read_records" => view[t] \in SnapshotType
    BY <1>1, <2>1 DEF KeptTyped
  <2> HIDE DEF snap
  <2>5. view'[t] \in SnapshotType
    <3>1. CASE view'[t] = snap
      BY <2>3, <3>1
    <3>2. CASE view'[t] = [snap EXCEPT !.preferences = {}, !.suppressions = {}, !.caps = {}]
      BY <2>3, <3>2 DEF SnapshotType
    <3>3. CASE pc[t] # "read_records" /\ \/ view'[t] = [view[t] EXCEPT !.preferences = snap.preferences]
                                          \/ view'[t] = [view[t] EXCEPT !.suppressions = snap.suppressions]
                                          \/ view'[t] = [view[t] EXCEPT !.caps = snap.caps]
      BY <2>3, <2>4, <3>3 DEF SnapshotType
    <3> QED
      BY <1>1, <1>6, <3>1, <3>2, <3>3 DEF ReadSnapshot, ReadCollection, ReadStep, KeptDomains, snap
  <2>6. UNCHANGED <<who, question, tally, outcome>>
    BY <1>6 DEF ReadSnapshot, ReadCollection, ReadStep
  <2> QED
    BY <1>1, <2>2, <2>5, <2>6 DEF KeptTyped
<1>7. ASSUME CountWindow(t)
      PROVE  KeptTyped(t)'
  <2>1. pc[t] = "count_sends" /\ UNCHANGED <<who, question, view, outcome>>
        /\ tally'[t] = SendsInWindow(question[t], view[t].caps, question[t].as_of)
    BY <1>1, <1>7 DEF CountWindow, KeptDomains
  <2>2. tally'[t] \in Nat
    BY <2>1, CountIsNat DEF DecisionTyped
  <2> QED
    BY <1>1, <2>1, <2>2 DEF KeptTyped, DecisionSteps
<1>8. ASSUME Judge(t) \/ ReadFails(t)
      PROVE  KeptTyped(t)'
  <2>1. pc'[t] = "idle" /\ UNCHANGED <<question, view, tally>>
    BY <1>4, <1>8 DEF Judge, ReadFails, Return
  <2>2. \A rules : Decided(t, rules) \in BOOLEAN
    BY DEF Decided, Allowed
  <2>3. outcome'[t] \in [allowed: BOOLEAN, rules: RuleOutcomes] \cup {None}
    BY <1>1, <1>8, <2>2 DEF Judge, ReadFails, KeptDomains, KeptTyped
  <2> QED
    BY <1>1, <2>1, <2>3, StepsApart DEF KeptTyped
<1> QED
  BY <1>2, <1>3, <1>5, <1>6, <1>7, <1>8 DEF Decide

-----------------------------------------------------------------------------
(* A step of the whole.                                                    *)

\* What a step notes of the history, whoever makes it.
Noted ==
    /\ permitting' = [t \in Thread |-> Since(t, permitting[t], PermittedNow(t)')]
    /\ onFile' = [t \in Thread |-> Since(t, onFile[t], OnFileNow(t)')]
    /\ uncounted' = [t \in Thread |-> Since(t, uncounted[t], Uncounted(t))]

LEMMA NotedTyped ==
    ASSUME DecisionTyped, Noted, NEW u \in Thread
    PROVE  permitting'[u] \subseteq RuleOutcomes /\ onFile'[u] \subseteq Facts /\ uncounted'[u] \subseteq Id
<1>1. permitting[u] \subseteq RuleOutcomes /\ onFile[u] \subseteq Facts /\ uncounted[u] \subseteq Id
  BY DEF DecisionTyped, DecisionTypeOK
<1>2. PermittedNow(u)' \subseteq RuleOutcomes
  BY DEF PermittedNow, RuleOutcomes
<1>3. OnFileNow(u)' \subseteq Facts
  BY DEF OnFileNow, Facts
<1>4. Uncounted(u) \subseteq Id
  BY DEF Uncounted, Countable, SentInWindow, SentSince
<1> QED
  BY <1>1, <1>2, <1>3, <1>4 DEF Noted, Since

LEMMA DecisionTypedStep == DecisionTyped /\ [Next]_allVars => DecisionTyped'
<1> SUFFICES ASSUME DecisionTyped, [Next]_allVars PROVE DecisionTyped'
  OBVIOUS
<1>1. \A u \in Thread : pc[u] \in AllSteps /\ KeptTyped(u)
  BY DEF DecisionTyped, DecisionTypeOK, KeptTyped
<1>2. ASSUME Typed', pc' \in [Thread -> AllSteps], KeptDomains', \A u \in Thread : KeptTyped(u)',
             Noted, IsFiniteSet({i \in Id : sends[i] # None})'
      PROVE  DecisionTyped'
  <2>1. DecisionTypeOK'
    BY <1>2, NotedTyped DEF DecisionTypeOK, KeptTyped, Typed, AllSteps
  <2> QED
    BY <1>2, <2>1 DEF DecisionTyped, KeptDomains, KeptTyped
<1>3. ASSUME NEW t \in Thread, Decide(t), Noted
      PROVE  DecisionTyped'
  <2>1. Typed' /\ pc' \in [Thread -> AllSteps] /\ sends' = sends
    BY <1>3, DecideTyped DEF Aside, tables
  <2>2. IsFiniteSet({i \in Id : sends[i] # None})'
    BY <2>1 DEF DecisionTyped
  <2> QED
    BY <1>2, <1>3, <2>1, <2>2, DecideKeepsTypes
<1>4. ASSUME WriteNext, UNCHANGED Kept, Noted
      PROVE  DecisionTyped'
  <2>1. Typed' /\ pc' \in [Thread -> AllSteps] /\ IsFiniteSet({i \in Id : sends[i] # None})'
    BY <1>4, TypeStep, StepsStep, SendsOfStep DEF DecisionTyped, AllSteps
  <2>2. KeptDomains'
    BY <1>4 DEF Kept, KeptDomains, DecisionTyped
  <2>3. \A u \in Thread : KeptTyped(u)'
    BY <1>1, <1>4, DecidersRest DEF Kept, KeptTyped, DecisionTyped
  <2> QED
    BY <1>2, <1>4, <2>1, <2>2, <2>3
<1>5. CASE UNCHANGED allVars
  BY <1>5 DEF allVars, decisionVars, vars, tables, callVars, DecisionTyped, DecisionTypeOK, Typed,
              WritesTypeOK, StoreTypeOK, WriteTypeOK
<1> QED
  BY <1>3, <1>4, <1>5 DEF Next, Noted, Kept

LEMMA DecisionTypedInit == Init => DecisionTyped
<1> SUFFICES ASSUME Init PROVE DecisionTyped
  OBVIOUS
<1>1. {i \in Id : sends[i] # None} = {}
  BY DEF Init, WritesInit, StoreInit
<1>2. WritesTypeOK /\ pc \in [Thread -> {"idle"}] /\ DOMAIN who = Thread /\ DOMAIN write = Thread
  BY SeedAssumption, StepsApart DEF Init, WritesInit, StoreInit, WritesTypeOK, StoreTypeOK, WriteTypeOK,
     WriteSteps, RecordSteps, PreferenceSteps, SuppressionSteps, SendSteps
<1>3. Typed /\ pc \in [Thread -> AllSteps]
  BY <1>2 DEF Typed, AllSteps
<1>4. \A t \in Thread : pc[t] \notin DecisionSteps
  BY <1>2, StepsApart
<1> QED
  BY <1>1, <1>2, <1>3, <1>4, FS_EmptySet DEF Init, DecisionTyped, DecisionTypeOK

\* Every variable of the decisions keeps its type: in particular a thread that
\* decides has a well-formed question and, once it has read, a whole snapshot.
THEOREM DecisionTypeCorrect == Spec => []DecisionTypeOK
<1>1. DecisionTyped => DecisionTypeOK
  BY DEF DecisionTyped
<1> QED
  BY <1>1, DecisionTypedInit, DecisionTypedStep, PTL DEF Spec

-----------------------------------------------------------------------------
(* What was read, was so.                                                  *)

\* The sends on file now against the cap u has read.
Tallied(u) == SendsInWindow(question[u], view[u].caps, question[u].as_of)

Room(u, sent) == ~Exceeds(question[u], view[u].caps, sent)

\* What u has read of each fact was on file when it read it, and of the cap as
\* long as the count loses no send.
SeenFacts(u) ==
    /\ pc[u] \in DecisionSteps \ {"read_records"}
       /\ Granted(question[u].purpose, view[u].records, question[u].as_of) => "consent" \in onFile[u]
    /\ pc[u] \in {"read_suppressions", "read_caps", "count_sends", "judge"}
       /\ OptedIn(question[u], view[u].preferences) => "opt_in" \in onFile[u]
    /\ pc[u] \in {"read_caps", "count_sends", "judge"}
       /\ ~Suppressed(question[u], view[u].suppressions, question[u].as_of) => "not_suppressed" \in onFile[u]

SeenRoom(u) ==
    /\ pc[u] = "count_sends" /\ uncounted[u] = {} /\ Room(u, Tallied(u)) => "under_cap" \in onFile[u]
    /\ pc[u] = "judge" /\ uncounted[u] = {} /\ Room(u, tally[u]) => "under_cap" \in onFile[u]

SeenLocally(u) ==
    adapter = "local" /\ uncounted[u] = {} => \A rules \in RuleOutcomes :
        /\ pc[u] = "count_sends" /\ Allowed(question[u], view[u], question[u].as_of, rules, Tallied(u))
              => rules \in permitting[u]
        /\ pc[u] = "judge" /\ Decided(u, rules) => rules \in permitting[u]

\* What came of it.
SeenOutcome(u) ==
    /\ pc[u] \in DecisionSteps => outcome[u] = None
    /\ AllowedBy(u) => Facts \ onFile[u] \subseteq (IF uncounted[u] = {} THEN {} ELSE {"under_cap"})
    /\ AllowedBy(u) /\ adapter = "local" /\ uncounted[u] = {} => outcome[u].rules \in permitting[u]

Seen(u) == SeenFacts(u) /\ SeenRoom(u) /\ SeenLocally(u) /\ SeenOutcome(u)

\* While u decides, what was so remains noted.
LEMMA NotedGrows ==
    ASSUME Noted, NEW u \in Thread, pc[u] # "idle", pc'[u] \in DecisionSteps
    PROVE  /\ permitting[u] \cup PermittedNow(u)' = permitting'[u]
           /\ onFile[u] \cup OnFileNow(u)' = onFile'[u]
           /\ uncounted[u] \cup Uncounted(u) = uncounted'[u]
BY DEF Noted, Since

LEMMA NotedRests ==
    ASSUME Noted, NEW u \in Thread, pc'[u] \notin DecisionSteps
    PROVE  permitting'[u] = permitting[u] /\ onFile'[u] = onFile[u] /\ uncounted'[u] = uncounted[u]
BY DEF Noted, Since

\* A count that loses no send does not shrink.
LEMMA TallyGrows ==
    ASSUME DecisionTyped, DecisionTyped', NEW u \in Thread, pc[u] = "count_sends", pc'[u] = "count_sends",
           Uncounted(u) = {}
    PROVE  Tallied(u) \in Nat /\ Tallied(u)' \in Nat /\ Tallied(u) <= Tallied(u)'
<1>1. Countable(u) = SentInWindow(question[u], view[u].caps, question[u].as_of)
  BY DEF Countable
<1>2. Countable(u)' = SentInWindow(question[u], view[u].caps, question[u].as_of)'
  BY DEF Countable
<1>3. Countable(u) \subseteq Countable(u)'
  BY DEF Uncounted
<1>4. IsFiniteSet(Countable(u)')
  <2>1. Countable(u)' \subseteq {i \in Id : sends'[i] # None}
    BY DEF Countable, SentInWindow, SentSince, OfSubject, Stored
  <2>2. IsFiniteSet({i \in Id : sends'[i] # None})
    BY DEF DecisionTyped
  <2> QED
    BY <2>1, <2>2, FS_Subset
<1>5. Tallied(u) = Cardinality(Countable(u)) /\ Tallied(u)' = Cardinality(Countable(u)')
  BY <1>1, <1>2 DEF Tallied, SendsInWindow
<1> QED
  BY <1>3, <1>4, <1>5, FS_Subset, FS_CardinalityType

\* A step of another thread, or of a write, changes nothing of what u has seen.
LEMMA SeenRests ==
    ASSUME DecisionTyped, DecisionTyped', Noted, adapter' = adapter, NEW u \in Thread, Seen(u),
           pc[u] \in DecisionSteps \/ pc'[u] \in DecisionSteps => pc'[u] = pc[u],
           question'[u] = question[u], view'[u] = view[u], tally'[u] = tally[u], outcome'[u] = outcome[u]
    PROVE  Seen(u)'
<1>1. CASE pc'[u] \notin DecisionSteps
  <2>1. permitting'[u] = permitting[u] /\ onFile'[u] = onFile[u] /\ uncounted'[u] = uncounted[u]
    BY <1>1, NotedRests
  <2>2. SeenOutcome(u)'
    BY <1>1, <2>1 DEF Seen, SeenOutcome, AllowedBy
  <2> QED
    BY <1>1, <2>2 DEF Seen, SeenFacts, SeenRoom, SeenLocally, DecisionSteps
<1>2. CASE pc'[u] \in DecisionSteps
  <2>1. pc'[u] = pc[u] /\ pc[u] # "idle"
    BY <1>2 DEF DecisionSteps
  <2>2. /\ permitting[u] \subseteq permitting'[u] /\ onFile[u] \subseteq onFile'[u]
        /\ uncounted'[u] = {} => uncounted[u] = {} /\ Uncounted(u) = {}
    BY <1>2, <2>1, NotedGrows
  <2>3. SeenFacts(u)'
    BY <2>1, <2>2 DEF Seen, SeenFacts
  <2>4. pc[u] = "count_sends" => view[u].caps \subseteq CapRow
    BY DEF DecisionTyped, DecisionSteps, SnapshotType
  <2>5. ASSUME pc[u] = "count_sends", uncounted'[u] = {}
        PROVE  Tallied(u) \in Nat /\ Tallied(u)' \in Nat /\ Tallied(u) <= Tallied(u)'
    BY <2>1, <2>2, <2>5, TallyGrows
  <2>6. SeenRoom(u)'
    <3>1. ASSUME pc[u] = "count_sends", uncounted'[u] = {}, Room(u, Tallied(u))'
          PROVE  "under_cap" \in onFile'[u]
      <4>1. ~Exceeds(question[u], view[u].caps, Tallied(u)')
        BY <3>1 DEF Room
      <4>2. ~Exceeds(question[u], view[u].caps, Tallied(u))
        BY <2>4, <2>5, <3>1, <4>1, FewerSendsFit
      <4> QED
        BY <2>2, <3>1, <4>2 DEF Seen, SeenRoom, Room
    <3>2. ASSUME pc[u] = "judge", uncounted'[u] = {}, Room(u, tally[u])'
          PROVE  "under_cap" \in onFile'[u]
      BY <2>2, <3>2 DEF Seen, SeenRoom, Room
    <3> QED
      BY <2>1, <3>1, <3>2 DEF SeenRoom
  <2>7. SeenLocally(u)'
    <3>1. ASSUME NEW rules \in RuleOutcomes, adapter = "local", pc[u] = "count_sends", uncounted'[u] = {},
                 Allowed(question[u], view[u], question[u].as_of, rules, Tallied(u)')
          PROVE  rules \in permitting'[u]
      <4>1. Allowed(question[u], view[u], question[u].as_of, rules, Tallied(u))
        BY <2>4, <2>5, <3>1, FewerSendsAllow
      <4> QED
        BY <2>2, <3>1, <4>1 DEF Seen, SeenLocally
    <3>2. ASSUME NEW rules \in RuleOutcomes, adapter = "local", pc[u] = "judge", uncounted'[u] = {},
                 Decided(u, rules)
          PROVE  rules \in permitting'[u]
      BY <2>2, <3>2 DEF Seen, SeenLocally
    <3>3. \A rules : Decided(u, rules)' <=> Decided(u, rules)
      BY DEF Decided
    <3>4. RuleOutcomes' = RuleOutcomes
      BY DEF RuleOutcomes
    <3> QED
      BY <2>1, <3>1, <3>2, <3>3, <3>4 DEF SeenLocally
  <2>8. SeenOutcome(u)'
    BY <1>2, <2>1 DEF Seen, SeenOutcome, AllowedBy
  <2> QED
    BY <2>3, <2>6, <2>7, <2>8 DEF Seen
<1> QED
  BY <1>1, <1>2

-----------------------------------------------------------------------------
(* The steps of the decision itself.                                       *)

FileOf(u) == Snapshot(question[u].tenant, question[u].subject)

\* What is on file now, of u's question.
FileSpeaks(u) ==
    /\ Granted(question[u].purpose, FileOf(u).records, question[u].as_of) => "consent" \in OnFileNow(u)
    /\ OptedIn(question[u], FileOf(u).preferences) => "opt_in" \in OnFileNow(u)
    /\ ~Suppressed(question[u], FileOf(u).suppressions, question[u].as_of)
          => "not_suppressed" \in OnFileNow(u)
    /\ ~Exceeds(question[u], FileOf(u).caps,
                SendsInWindow(question[u], FileOf(u).caps, question[u].as_of)) => "under_cap" \in OnFileNow(u)
    /\ \A rules \in RuleOutcomes :
          Allowed(question[u], FileOf(u), question[u].as_of, rules,
                  SendsInWindow(question[u], FileOf(u).caps, question[u].as_of))
             => rules \in PermittedNow(u)

\* A suppression is no want of room, nor the other way round.
LEMMA FileSpoke == ASSUME NEW u PROVE FileSpeaks(u)'
<1> DEFINE q == question'[u]
           snap == FileOf(u)'
           sent == SendsInWindow(question[u], FileOf(u).caps, question[u].as_of)'
           denied == SuppressionReasons(q, snap.suppressions, q.as_of) \cup CapReasons(q, snap.caps, sent)
<1>1. OnFileNow(u)' = {f \in Facts :
            CASE f = "consent"        -> Granted(q.purpose, snap.records, q.as_of)
              [] f = "opt_in"         -> "channel_opted_in" \in PreferenceReasons(q, snap.preferences)
              [] f = "not_suppressed" -> "suppressed" \notin denied
              [] f = "under_cap"      -> "frequency_cap_exceeded" \notin denied}
  BY DEF OnFileNow, FileOf
<1>2. /\ "suppressed" \in denied => Suppressed(q, snap.suppressions, q.as_of)
      /\ "frequency_cap_exceeded" \in denied => Exceeds(q, snap.caps, sent)
  BY DEF Suppressed, Exceeds, SuppressionReasons, CapReasons
<1>3. \A rules \in RuleOutcomes : Allowed(q, snap, q.as_of, rules, sent) => rules \in PermittedNow(u)'
  BY DEF PermittedNow, FileOf, RuleOutcomes
<1> HIDE DEF q, snap, sent, denied
<1>4. /\ Granted(q.purpose, snap.records, q.as_of) => "consent" \in OnFileNow(u)'
      /\ OptedIn(q, snap.preferences) => "opt_in" \in OnFileNow(u)'
      /\ ~Suppressed(q, snap.suppressions, q.as_of) => "not_suppressed" \in OnFileNow(u)'
      /\ ~Exceeds(q, snap.caps, sent) => "under_cap" \in OnFileNow(u)'
  BY <1>1, <1>2 DEF Facts, OptedIn
<1> QED
  BY <1>3, <1>4 DEF FileSpeaks, q, snap, sent, RuleOutcomes

LEMMA BeginSees ==
    ASSUME DecisionTyped, NEW t \in Thread,
           NEW p \in Principal, NEW q \in Questions, NEW asOf \in AsOfs, BeginDecision(t, p, q, asOf)
    PROVE  Seen(t)'
<1>1. pc'[t] = "read_records" /\ outcome'[t] = None
  BY DEF DecisionTyped, Typed, BeginDecision, Begin
<1> QED
  BY <1>1 DEF Seen, SeenFacts, SeenRoom, SeenLocally, SeenOutcome, AllowedBy

\* What a step of reading leaves, whichever it is.
LEMMA ReadStepLeaves ==
    ASSUME DecisionTyped, Noted, NEW t \in Thread, NEW step \in DecisionSteps,
           NEW next \in DecisionSteps, NEW snap, ReadStep(t, step, next, snap)
    PROVE  /\ pc[t] = step /\ pc'[t] = next /\ view'[t] = snap
           /\ question' = question /\ outcome'[t] = outcome[t]
           /\ FileOf(t)' = FileOf(t)
           /\ onFile[t] \subseteq onFile'[t] /\ OnFileNow(t)' \subseteq onFile'[t]
           /\ PermittedNow(t)' \subseteq permitting'[t]
<1>1. pc[t] = step /\ pc'[t] = next /\ view'[t] = snap /\ UNCHANGED <<tables, question, outcome>>
  BY DEF ReadStep, DecisionTyped, Typed
<1>2. step # "idle"
  BY DEF DecisionSteps
<1>3. FileOf(t)' = FileOf(t)
  BY <1>1 DEF FileOf, Snapshot, OfSubject, CapsOf, Stored, tables
<1> QED
  BY <1>1, <1>2, <1>3, NotedGrows

LEMMA ReadSnapshotSees ==
    ASSUME DecisionTyped, Noted, adapter' = adapter, NEW t \in Thread, Seen(t), ReadSnapshot(t)
    PROVE  Seen(t)'
<1>1. adapter = "local" /\ ReadStep(t, "read_records", "count_sends", FileOf(t))
  BY DEF ReadSnapshot, FileOf
<1>2. /\ pc[t] = "read_records" /\ pc'[t] = "count_sends" /\ view'[t] = FileOf(t)
      /\ question' = question /\ outcome'[t] = outcome[t] /\ FileOf(t)' = FileOf(t)
      /\ OnFileNow(t)' \subseteq onFile'[t] /\ PermittedNow(t)' \subseteq permitting'[t]
  BY <1>1, ReadStepLeaves DEF DecisionSteps
<1>3. FileSpeaks(t)'
  BY FileSpoke
<1>4. outcome'[t] = None
  BY <1>2 DEF Seen, SeenOutcome, DecisionSteps
<1>5. Tallied(t)' = SendsInWindow(question[t], FileOf(t).caps, question[t].as_of)'
  BY <1>2 DEF Tallied, SendsInWindow, SentInWindow, SentSince
<1>6. SeenFacts(t)'
  BY <1>2, <1>3 DEF SeenFacts, FileSpeaks
<1>7. SeenRoom(t)'
  BY <1>2, <1>3, <1>5 DEF SeenRoom, Room, FileSpeaks
<1>8. SeenLocally(t)'
  BY <1>2, <1>3, <1>5 DEF SeenLocally, FileSpeaks, RuleOutcomes
<1> QED
  BY <1>4, <1>6, <1>7, <1>8 DEF Seen, SeenOutcome, AllowedBy

LEMMA ReadCollectionSees ==
    ASSUME DecisionTyped, Noted, adapter' = adapter, NEW t \in Thread, Seen(t), ReadCollection(t)
    PROVE  Seen(t)'
<1> DEFINE snap == FileOf(t)
<1>1. FileSpeaks(t)'
  BY FileSpoke
<1>2. pc[t] \in DecisionSteps \ {"read_records"} => view[t] \in SnapshotType
  BY DEF DecisionTyped
<1>3. pc[t] \in DecisionSteps => outcome[t] = None
  BY DEF Seen, SeenOutcome
<1>4. SeenLocally(t)'
  BY DEF ReadCollection, SeenLocally
<1>5. ASSUME ReadStep(t, "read_records", "read_preferences",
                      [snap EXCEPT !.preferences = {}, !.suppressions = {}, !.caps = {}])
      PROVE  Seen(t)'
  <2>1. /\ pc[t] = "read_records" /\ pc'[t] = "read_preferences"
        /\ view'[t] = [snap EXCEPT !.preferences = {}, !.suppressions = {}, !.caps = {}]
        /\ question' = question /\ outcome'[t] = outcome[t] /\ FileOf(t)' = snap
        /\ OnFileNow(t)' \subseteq onFile'[t]
    BY <1>5, ReadStepLeaves DEF DecisionSteps
  <2>2. view'[t].records = snap.records
    BY <2>1 DEF FileOf, Snapshot
  <2> HIDE DEF snap
  <2> QED
    BY <1>1, <1>3, <1>4, <2>1, <2>2
       DEF Seen, SeenFacts, SeenRoom, SeenOutcome, AllowedBy, FileSpeaks, DecisionSteps
<1>6. ASSUME ReadStep(t, "read_preferences", "read_suppressions",
                      [view[t] EXCEPT !.preferences = snap.preferences])
      PROVE  Seen(t)'
  <2>1. /\ pc[t] = "read_preferences" /\ pc'[t] = "read_suppressions"
        /\ view'[t] = [view[t] EXCEPT !.preferences = snap.preferences]
        /\ question' = question /\ outcome'[t] = outcome[t] /\ FileOf(t)' = snap
        /\ onFile[t] \subseteq onFile'[t] /\ OnFileNow(t)' \subseteq onFile'[t]
    BY <1>6, ReadStepLeaves DEF DecisionSteps
  <2>2. view'[t].records = view[t].records /\ view'[t].preferences = snap.preferences
    BY <1>2, <2>1 DEF SnapshotType, DecisionSteps
  <2> HIDE DEF snap
  <2> QED
    BY <1>1, <1>3, <1>4, <2>1, <2>2
       DEF Seen, SeenFacts, SeenRoom, SeenOutcome, AllowedBy, FileSpeaks, DecisionSteps
<1>7. ASSUME ReadStep(t, "read_suppressions", "read_caps",
                      [view[t] EXCEPT !.suppressions = snap.suppressions])
      PROVE  Seen(t)'
  <2>1. /\ pc[t] = "read_suppressions" /\ pc'[t] = "read_caps"
        /\ view'[t] = [view[t] EXCEPT !.suppressions = snap.suppressions]
        /\ question' = question /\ outcome'[t] = outcome[t] /\ FileOf(t)' = snap
        /\ onFile[t] \subseteq onFile'[t] /\ OnFileNow(t)' \subseteq onFile'[t]
    BY <1>7, ReadStepLeaves DEF DecisionSteps
  <2>2. /\ view'[t].records = view[t].records /\ view'[t].preferences = view[t].preferences
        /\ view'[t].suppressions = snap.suppressions
    BY <1>2, <2>1 DEF SnapshotType, DecisionSteps
  <2> HIDE DEF snap
  <2> QED
    BY <1>1, <1>3, <1>4, <2>1, <2>2
       DEF Seen, SeenFacts, SeenRoom, SeenOutcome, AllowedBy, FileSpeaks, DecisionSteps
<1>8. ASSUME ReadStep(t, "read_caps", "count_sends", [view[t] EXCEPT !.caps = snap.caps])
      PROVE  Seen(t)'
  <2>1. /\ pc[t] = "read_caps" /\ pc'[t] = "count_sends"
        /\ view'[t] = [view[t] EXCEPT !.caps = snap.caps]
        /\ question' = question /\ outcome'[t] = outcome[t] /\ FileOf(t)' = snap
        /\ onFile[t] \subseteq onFile'[t] /\ OnFileNow(t)' \subseteq onFile'[t]
    BY <1>8, ReadStepLeaves DEF DecisionSteps
  <2>2. /\ view'[t].records = view[t].records /\ view'[t].preferences = view[t].preferences
        /\ view'[t].suppressions = view[t].suppressions /\ view'[t].caps = snap.caps
    BY <1>2, <2>1 DEF SnapshotType, DecisionSteps
  <2> HIDE DEF snap
  <2>3. Tallied(t)' = SendsInWindow(question[t], FileOf(t).caps, question[t].as_of)'
    BY <2>1, <2>2 DEF Tallied, SendsInWindow, SentInWindow, SentSince
  <2>4. SeenRoom(t)'
    BY <1>1, <2>1, <2>2, <2>3 DEF SeenRoom, Room, FileSpeaks
  <2> QED
    BY <1>3, <1>4, <2>1, <2>2, <2>4 DEF Seen, SeenFacts, SeenOutcome, AllowedBy, DecisionSteps
<1> QED
  BY <1>5, <1>6, <1>7, <1>8 DEF ReadCollection, FileOf

LEMMA CountWindowSees ==
    ASSUME DecisionTyped, Noted, adapter' = adapter, NEW t \in Thread, Seen(t), CountWindow(t)
    PROVE  Seen(t)'
<1>1. /\ pc[t] = "count_sends" /\ pc'[t] = "judge" /\ tally'[t] = Tallied(t)
      /\ UNCHANGED <<question, view, outcome>>
  BY DEF CountWindow, Tallied, DecisionTyped, Typed
<1>2. /\ onFile[t] \subseteq onFile'[t] /\ permitting[t] \subseteq permitting'[t]
      /\ uncounted[t] \subseteq uncounted'[t]
  BY <1>1, NotedGrows DEF DecisionSteps
<1>3. SeenFacts(t)'
  BY <1>1, <1>2 DEF Seen, SeenFacts, DecisionSteps
<1>4. SeenRoom(t)'
  BY <1>1, <1>2 DEF Seen, SeenRoom, Room
<1>5. \A rules : Decided(t, rules)' <=> Allowed(question[t], view[t], question[t].as_of, rules, Tallied(t))
  BY <1>1 DEF Decided
<1>6. SeenLocally(t)'
  BY <1>1, <1>2, <1>5 DEF Seen, SeenLocally, RuleOutcomes
<1>7. SeenOutcome(t)'
  BY <1>1 DEF Seen, SeenOutcome, AllowedBy, DecisionSteps
<1> QED
  BY <1>3, <1>4, <1>6, <1>7 DEF Seen

LEMMA ReturnSees ==
    ASSUME DecisionTyped, Noted, adapter' = adapter, NEW t \in Thread, Seen(t), Judge(t) \/ ReadFails(t)
    PROVE  Seen(t)'
<1>1. pc[t] \in DecisionSteps /\ pc'[t] = "idle"
  BY DEF Judge, ReadFails, Return, DecisionTyped, Typed, DecisionSteps
<1>2. permitting'[t] = permitting[t] /\ onFile'[t] = onFile[t] /\ uncounted'[t] = uncounted[t]
  BY <1>1, NotedRests DEF DecisionSteps
<1>3. outcome[t] = None
  BY <1>1 DEF Seen, SeenOutcome
<1>4. CASE outcome'[t] = None
  BY <1>1, <1>4 DEF Seen, SeenFacts, SeenRoom, SeenLocally, SeenOutcome, AllowedBy, DecisionSteps
<1>5. ASSUME NEW rules \in RuleOutcomes, pc[t] = "judge",
             outcome'[t] = [allowed |-> Decided(t, rules), rules |-> rules]
      PROVE  Seen(t)'
  <2>1. AllowedBy(t)' => Decided(t, rules)
    BY <1>5 DEF AllowedBy
  <2>2. Decided(t, rules) => /\ Granted(question[t].purpose, view[t].records, question[t].as_of)
                             /\ OptedIn(question[t], view[t].preferences)
                             /\ ~Suppressed(question[t], view[t].suppressions, question[t].as_of)
                             /\ Room(t, tally[t])
    BY AllowedNeeds DEF Decided, Room
  <2>3. Decided(t, rules) => /\ {"consent", "opt_in", "not_suppressed"} \subseteq onFile[t]
                             /\ uncounted[t] = {} => "under_cap" \in onFile[t]
    BY <1>5, <2>2 DEF Seen, SeenFacts, SeenRoom, DecisionSteps
  <2>4. Decided(t, rules) /\ adapter = "local" /\ uncounted[t] = {} => rules \in permitting[t]
    BY <1>5 DEF Seen, SeenLocally
  <2>5. outcome'[t].rules = rules
    BY <1>5
  <2>6. SeenOutcome(t)'
    BY <1>1, <1>2, <2>1, <2>3, <2>4, <2>5 DEF SeenOutcome, Facts, DecisionSteps
  <2> QED
    BY <1>1, <2>6 DEF Seen, SeenFacts, SeenRoom, SeenLocally, DecisionSteps
<1>6. \/ outcome'[t] = None
      \/ pc[t] = "judge" /\ \E rules \in RuleOutcomes :
            outcome'[t] = [allowed |-> Decided(t, rules), rules |-> rules]
  BY <1>3 DEF Judge, ReadFails, DecisionTyped
<1> QED
  BY <1>4, <1>5, <1>6

-----------------------------------------------------------------------------
(* Decisions and writes together.                                          *)

DecisionSeen == DecisionTyped /\ \A u \in Thread : Seen(u)

LEMMA DecisionSeenInit == Init => DecisionSeen
<1> SUFFICES ASSUME Init PROVE \A u \in Thread : Seen(u)
  BY DecisionTypedInit DEF DecisionSeen
<1>1. \A u \in Thread : pc[u] = "idle" /\ outcome[u] = None
  BY DEF Init, WritesInit
<1> QED
  BY <1>1 DEF Seen, SeenFacts, SeenRoom, SeenLocally, SeenOutcome, AllowedBy, DecisionSteps

LEMMA DecisionSeenStep == DecisionSeen /\ [Next]_allVars => DecisionSeen'
<1> SUFFICES ASSUME DecisionSeen, [Next]_allVars PROVE DecisionSeen'
  OBVIOUS
<1>1. DecisionTyped /\ DecisionTyped' /\ \A u \in Thread : Seen(u)
  BY DecisionTypedStep DEF DecisionSeen
<1>2. ASSUME NEW t \in Thread, Decide(t), Noted, adapter' = adapter
      PROVE  \A u \in Thread : Seen(u)'
  <2>1. Seen(t)'
    BY <1>1, <1>2, BeginSees, ReadSnapshotSees, ReadCollectionSees, CountWindowSees, ReturnSees DEF Decide
  <2>2. ASSUME NEW u \in Thread, u # t
        PROVE  Seen(u)'
    <3>1. /\ pc'[u] = pc[u] /\ question'[u] = question[u] /\ view'[u] = view[u]
          /\ tally'[u] = tally[u] /\ outcome'[u] = outcome[u]
      BY <1>1, <1>2, <2>2, DecideKeeps
    <3> QED
      BY <1>1, <1>2, <3>1, SeenRests
  <2> QED
    BY <2>1, <2>2
<1>3. ASSUME WriteNext, UNCHANGED Kept, Noted, adapter' = adapter, NEW u \in Thread
      PROVE  Seen(u)'
  <2>1. pc[u] \in DecisionSteps \/ pc'[u] \in DecisionSteps => pc'[u] = pc[u]
    BY <1>1, <1>3, DecidersRest DEF DecisionTyped
  <2>2. /\ question'[u] = question[u] /\ view'[u] = view[u]
        /\ tally'[u] = tally[u] /\ outcome'[u] = outcome[u]
    BY <1>3 DEF Kept
  <2> QED
    BY <1>1, <1>3, <2>1, <2>2, SeenRests
<1>4. ASSUME UNCHANGED allVars, NEW u \in Thread
      PROVE  Seen(u)'
  <2>1. UNCHANGED <<sends, pc, adapter, question, view, tally, outcome, permitting, onFile, uncounted>>
    BY <1>4 DEF allVars, decisionVars, vars, tables, callVars
  <2>2. Tallied(u)' = Tallied(u)
    BY <2>1 DEF Tallied, SendsInWindow, SentInWindow, SentSince, OfSubject, Stored
  <2> QED
    BY <1>1, <2>1, <2>2
       DEF Seen, SeenFacts, SeenRoom, SeenLocally, SeenOutcome, AllowedBy, Room, Decided, RuleOutcomes
<1> QED
  BY <1>1, <1>2, <1>3, <1>4 DEF DecisionSeen, Next, Noted, Kept

LEMMA DecisionSeenAlways == Spec => []DecisionSeen
BY DecisionSeenInit, DecisionSeenStep, PTL DEF Spec

\* With either store an allowed contact rests on facts each on file at some
\* instant of its decision, though its reads straddle any number of writes.
THEOREM EachFactCorrect == Spec => []EachFactWasOnFile
<1>1. DecisionSeen => EachFactWasOnFile
  BY DEF DecisionSeen, Seen, SeenOutcome, EachFactWasOnFile
<1> QED
  BY <1>1, DecisionSeenAlways, PTL

\* With the local store everything on file at one instant permitted it: the
\* snapshot is of one instant, and a count that loses no send only grows after it.
THEOREM LocalDecisionsCorrect == Spec => []LocalAllowedWasPermitted
<1>1. DecisionSeen => LocalAllowedWasPermitted
  BY DEF DecisionSeen, Seen, SeenOutcome, LocalAllowedWasPermitted
<1> QED
  BY <1>1, DecisionSeenAlways, PTL
=============================================================================
