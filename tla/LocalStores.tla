---------------------------- MODULE LocalStores ----------------------------
(***************************************************************************)
(* The SQLite stores of the laptop profiles from the first request on: how *)
(* worker threads bind a port (config.Container), how an adapter that      *)
(* finds its file empty seeds it, and what requests read while another     *)
(* adapter is at it.  The files outlive the processes.                     *)
(*                                                                         *)
(* A write transaction opens with a DELETE and closes with the first       *)
(* commit after it: each put of the consent and evidence stores commits,   *)
(* the rule index commits once.  An adapter's RLock never delays another   *)
(* adapter, so it is left out; SQLite's own write lock is `writer'.        *)
(***************************************************************************)
EXTENDS DemoSeed

CONSTANTS Process, Worker,
          Home,          \* Home[w] is the process worker thread w runs in
          Nobody,        \* no worker
          Now,           \* as_of of every decision
          MaxRequests,   \* bound: requests begun
          MaxDeaths      \* bound: processes that die

Store == {"rules", "evidence", "consent"}

ASSUME HomeAssumption == Home \in [Worker -> Process]

ASSUME NobodyIsNoWorker == Nobody \notin Worker

ASSUME BoundAssumption == MaxRequests \in Nat /\ MaxDeaths \in Nat

ASSUME NowAssumption == Now \in Documented

\* mutant: the consent service is wired to the evidence store, too
PortsOfAllServices(op) ==
    CASE op = "review" -> <<"rules", "consent">>
      [] op = "assess" -> <<"evidence">>
      [] OTHER         -> <<"consent", "rules", "evidence">>

\* The ports a request reaches, in the order its service is wired.
Ports(op) ==
    CASE op = "review" -> <<"rules", "consent">>
      [] op = "assess" -> <<"evidence">>
      [] OTHER         -> <<"consent", "rules">>

Op == {"review", "assess", "decide", "suppress"}

\* What may be left of them, two at most, while one is reached.
LeftOf(op) == {Ports(op), Tail(Ports(op))} \ {<<>>}

-----------------------------------------------------------------------------
(* What a file holds: rows, each with the table it is in.                  *)

\* What is committed together when store s is seeded, commit by commit.
SeedPutsOf(s) ==
    CASE s = "rules"    -> << {[table |-> "rules", row |-> r] : r \in ALL_RULES} >>
      [] s = "evidence" ->
            [i \in DOMAIN SEED_EVIDENCE |-> {Rows("evidence", SEED_EVIDENCE)[i]}]
      [] s = "consent"  -> [i \in DOMAIN ConsentPuts |-> {ConsentPuts[i]}]

\* The puts of each store, a table TLC computes once.
SeedTable == [s \in Store |-> SeedPutsOf(s)]

\* mutant: the rule index, too, commits rule by rule
SeedPutsRuleByRule(s) ==
    IF s = "rules"
    THEN LET claims == {r \in ALL_RULES : r.kind # "consent"}
         IN  << {[table |-> "rules", row |-> r] : r \in claims},
                {[table |-> "rules", row |-> r] : r \in ALL_RULES \ claims} >>
    ELSE SeedTable[s]

SeedPuts(s) == SeedTable[s]

Whole(s) == UNION {SeedPuts(s)[i] : i \in DOMAIN SeedPuts(s)}

\* A subject who asks not to be contacted, while the service runs.
Stop == [table |-> "suppressions", row |-> DoNotContact(2, 101, Now)]

-----------------------------------------------------------------------------
VARIABLES
    file,      \* file[s] the committed rows of store s
    writer,    \* writer[s] the worker whose write transaction is open on it
    bound,     \* bound[p] the ports process p has an adapter for
    pc, op, todo, nth,   \* of each worker: step, request, ports left, next put
    requests, deaths,    \* bounds
    stopped,   \* history: the suppression was acknowledged
    raced,     \* history: stores an adapter joined while another seeded it
    torn       \* history: stores whose seeding was cut off after a commit

worker == <<pc, op, todo, nth>>
vars == <<file, writer, bound, worker, requests, deaths, stopped, raced, torn>>

StoresTypeOK ==
    /\ DOMAIN file = Store /\ \A s \in Store : file[s] \subseteq Whole(s) \cup {Stop}
    /\ writer \in [Store -> Worker \cup {Nobody}]
    /\ bound \in [Process -> SUBSET Store]
    /\ pc \in [Worker -> {"idle", "bind", "clear", "put", "publish", "serve"}]
    /\ op \in [Worker -> Op] /\ todo \in [Worker -> Seq(Store)] /\ nth \in [Worker -> Nat]
    /\ \A w \in Worker :
          /\ todo[w] \in IF pc[w] \in {"idle", "serve"} THEN {<<>>} ELSE LeftOf(op[w])
          /\ nth[w] \in IF pc[w] = "put" THEN DOMAIN SeedPuts(Head(todo[w])) ELSE {0}
    /\ requests \in 0..MaxRequests /\ deaths \in 0..MaxDeaths
    /\ stopped \in BOOLEAN /\ raced \subseteq Store /\ torn \subseteq Store

Init ==
    /\ file = [s \in Store |-> {}]
    /\ writer = [s \in Store |-> Nobody]
    /\ bound = [p \in Process |-> {}]
    /\ pc = [w \in Worker |-> "idle"]
    /\ op = [w \in Worker |-> "review"]
    /\ todo = [w \in Worker |-> <<>>]
    /\ nth = [w \in Worker |-> 0]
    /\ requests = 0 /\ deaths = 0 /\ stopped = FALSE
    /\ raced = {} /\ torn = {}

Port(w) == Head(todo[w])

\* The put that the next commit of w makes is the k-th.
Move(w, step, k) ==
    /\ pc' = [pc EXCEPT ![w] = step]
    /\ nth' = [nth EXCEPT ![w] = k]

NextPort(w) ==
    /\ todo' = [todo EXCEPT ![w] = Tail(@)]
    /\ Move(w, IF Tail(todo[w]) = <<>> THEN "serve" ELSE "bind", 0)

\* Workers that are seeding the file of store s.
Seeding(s) == {w \in Worker : pc[w] \in {"clear", "put"} /\ Port(w) = s}

-----------------------------------------------------------------------------
(* A request and its ports.                                                *)

Begin(w) ==
    /\ pc[w] = "idle" /\ requests < MaxRequests
    /\ \E o \in Op :
          /\ op' = [op EXCEPT ![w] = o]
          /\ todo' = [todo EXCEPT ![w] = Ports(o)]
    /\ Move(w, "bind", 0)
    /\ requests' = requests + 1
    /\ UNCHANGED <<file, writer, bound, deaths, stopped, raced, torn>>

\* cached_property: no lock between the miss and the assignment.
UseBound(w) ==
    /\ pc[w] = "bind" /\ Port(w) \in bound[Home[w]]
    /\ NextPort(w)
    /\ UNCHANGED <<file, writer, bound, op, requests, deaths, stopped, raced, torn>>

\* mutant: a fresh adapter always seeds
AlwaysEmpty(s) == TRUE

\* Only consent_records is counted, whatever the other tables hold.
IsEmpty(s) ==
    IF s = "consent" THEN ~\E r \in file[s] : r.table = "records" ELSE file[s] = {}

Construct(w) ==
    /\ pc[w] = "bind" /\ Port(w) \notin bound[Home[w]]
    /\ Move(w, IF IsEmpty(Port(w)) THEN "clear" ELSE "publish", 0)
    /\ raced' = raced \cup {s \in {Port(w)} : Seeding(s) # {}}
    /\ UNCHANGED <<file, writer, bound, op, todo, requests, deaths, stopped, torn>>

\* seed(): the DELETEs open a transaction.
Clear(w) ==
    /\ pc[w] = "clear" /\ writer[Port(w)] = Nobody
    /\ writer' = [writer EXCEPT ![Port(w)] = w]
    /\ Move(w, "put", 1)
    /\ UNCHANGED <<file, bound, op, todo, requests, deaths, stopped, raced, torn>>

\* mutant: the old rows are swept after the new ones are in
PutThenSweep(w) ==
    LET s == Port(w)
        kept == IF nth[w] = Len(SeedPuts(s)) THEN {} ELSE file[s]
    IN  /\ pc[w] = "put" /\ writer[s] \in {w, Nobody}
        /\ file' = [file EXCEPT ![s] = kept \cup SeedPuts(s)[nth[w]]]
        /\ writer' = [writer EXCEPT ![s] = Nobody]
        /\ IF nth[w] = Len(SeedPuts(s)) THEN Move(w, "publish", 0) ELSE Move(w, "put", nth[w] + 1)
        /\ UNCHANGED <<bound, op, todo, requests, deaths, stopped, raced, torn>>

\* One put and its commit; the first also commits the DELETEs.
Put(w) ==
    LET s == Port(w)
        kept == IF writer[s] = w THEN {} ELSE file[s]
    IN  /\ pc[w] = "put" /\ writer[s] \in {w, Nobody}
        /\ file' = [file EXCEPT ![s] = kept \cup SeedPuts(s)[nth[w]]]
        /\ writer' = [writer EXCEPT ![s] = Nobody]
        /\ IF nth[w] = Len(SeedPuts(s)) THEN Move(w, "publish", 0) ELSE Move(w, "put", nth[w] + 1)
        /\ UNCHANGED <<bound, op, todo, requests, deaths, stopped, raced, torn>>

Publish(w) ==
    /\ pc[w] = "publish"
    /\ bound' = [bound EXCEPT ![Home[w]] = @ \cup {Port(w)}]
    /\ NextPort(w)
    /\ UNCHANGED <<file, writer, op, requests, deaths, stopped, raced, torn>>

Finish(w) ==
    /\ Move(w, "idle", 0)
    /\ todo' = [todo EXCEPT ![w] = <<>>]
    /\ op' = [op EXCEPT ![w] = "review"]
    /\ UNCHANGED <<bound, requests, raced>>

\* A read, or a suppression: put and commit.
Serve(w) ==
    /\ pc[w] = "serve"
    /\ IF op[w] = "suppress"
       THEN /\ writer["consent"] = Nobody
            /\ file' = [file EXCEPT !["consent"] = @ \cup {Stop}]
            /\ stopped' = TRUE
       ELSE UNCHANGED <<file, stopped>>
    /\ Finish(w)
    /\ UNCHANGED <<writer, deaths, torn>>

\* "database is locked": a write waited for another's transaction in vain.
Locked(w) ==
    /\ \/ /\ pc[w] \in {"clear", "put"} /\ writer[Port(w)] \notin {w, Nobody}
          /\ torn' = torn \cup {s \in {Port(w)} : nth[w] > 1}
       \/ /\ pc[w] = "serve" /\ op[w] = "suppress" /\ writer["consent"] # Nobody
          /\ UNCHANGED torn
    /\ Finish(w)
    /\ UNCHANGED <<file, writer, deaths, stopped>>

\* An open transaction of a dead process is rolled back.
RolledBack(p) ==
    [s \in Store |-> IF writer[s] \in Worker /\ Home[writer[s]] = p THEN Nobody ELSE writer[s]]

\* mutant: the dead process' lock stays
KeptLocked(p) == writer

DieWith(p, locks) ==
    /\ deaths < MaxDeaths
    /\ LET dead == {w \in Worker : Home[w] = p}
           gone(f, v) == [w \in Worker |-> IF w \in dead THEN v ELSE f[w]]
       IN  /\ pc' = gone(pc, "idle") /\ todo' = gone(todo, <<>>) /\ nth' = gone(nth, 0)
           /\ op' = gone(op, "review")
           /\ torn' = torn \cup {s \in Store : \E w \in dead \cap Seeding(s) : nth[w] > 1}
    /\ bound' = [bound EXCEPT ![p] = {}]
    /\ writer' = locks
    /\ deaths' = deaths + 1
    /\ UNCHANGED <<file, requests, stopped, raced>>

\* mutant: no rollback
DieLocked(p) == DieWith(p, KeptLocked(p))

Die(p) == DieWith(p, RolledBack(p))

Work(w) ==
    \/ UseBound(w) \/ Construct(w) \/ Clear(w) \/ Put(w) \/ Publish(w) \/ Serve(w)

Next ==
    \/ \E w \in Worker : Begin(w) \/ Work(w) \/ Locked(w)
    \/ \E p \in Process : Die(p)

\* A worker thread that serves a request goes on with it.
Spec == Init /\ [][Next]_vars /\ \A w \in Worker : WF_vars(Work(w))

-----------------------------------------------------------------------------
(* What the files answer.                                                  *)

Table(s, t) == {r.row : r \in {x \in file[s] : x.table = t}}

RulesFor(m, v) == {r \in Table("rules", "rules") : r.market = m /\ r.vertical = v}

\* ConsentService.decide about subject s, marketing by e-mail, in the default market.
Contactable(s) ==
    LET of(t) == {r \in Table("consent", t) : r.tenant = TenantOf(s) /\ r.subject = s}
        snap == [tenant |-> TenantOf(s), subject |-> s, records |-> of("records"),
                 preferences |-> of("preferences"), suppressions |-> of("suppressions"),
                 caps |-> {c \in Table("consent", "caps") : c.tenant = TenantOf(s)}]
    IN  Allowed([tenant |-> TenantOf(s), subject |-> s, purpose |-> Marketing,
                 channel |-> "email"],
                snap, Now, RulesFor("SG", "banking"), 0)

ContactableSubjects == {s \in DemoSubjects \cup OtherSubjects : Contactable(s)}

Serving(ops) == \E w \in Worker : pc[w] = "serve" /\ op[w] \in ops

-----------------------------------------------------------------------------
(* The properties.                                                         *)

\* A decision served from a store whose seeding no crash cut off and no second
\* adapter joined is the one _consent_seed.py documents for each of its subjects, less
\* the one whose request to be left alone was acknowledged; and whatever the
\* crash or the race, nobody becomes contactable but the subject that only a
\* later table of the seed protects.
ContactsFollowTheSeed ==
    Serving({"decide"}) =>
        /\ "consent" \notin raced \cup torn =>
              ContactableSubjects = {101, 201} \ (IF stopped THEN {101} ELSE {})
        /\ ContactableSubjects \subseteq {101, 104, 201}

\* A review or a decision is never served from part of the rule pack: it has
\* the consent rule of every market and vertical, after any crash and in any
\* race, because the index is seeded in one transaction.
RulesAreWhole ==
    Serving({"review", "decide"}) =>
        /\ Table("rules", "rules") = ALL_RULES
        /\ \A m \in Markets, v \in Verticals : ConsentRules(RulesFor(m, v)) # {}

\* Adapters that seed one file together delete each other's rows, yet the
\* seed is whole again once all are done, unless one of them was cut off.
RacesEndWhole ==
    \A s \in raced \ torn :
        (Seeding(s) = {} /\ file[s] # {}) => Whole(s) \subseteq file[s]

\* Every request comes to an end (answered, failed or dead with its process),
\* though workers wait for one another's write transactions.
RequestsEnd == \A w \in Worker : []<>(pc[w] = "idle")
=============================================================================
