-------------------------- MODULE LocalStoresProofs --------------------------
(***************************************************************************)
(* What the SQLite stores hold while adapters seed them, for any processes *)
(* and workers, any number of requests and of deaths, proved of            *)
(* LocalStores.                                                            *)
(*                                                                         *)
(* None of the properties is inductive.  What a request is served from was *)
(* put before it was bound, so the invariant follows a store from its      *)
(* first row to the requests that have reached it.                         *)
(***************************************************************************)
EXTENDS LocalStores, SeedProofs

-----------------------------------------------------------------------------
(* The ports of a request.                                                 *)

\* The ports a request for o has reached when l is left.
Reached(o, l) == {s \in Store : s \in Range(Ports(o)) /\ s \notin Range(l)}

LEMMA ShortLists ==
    ASSUME NEW a, NEW b
    PROVE  /\ Range(<<a, b>>) = {a, b} /\ Range(<<a>>) = {a} /\ Range(<<>>) = {}
           /\ Head(<<a, b>>) = a /\ Head(<<a>>) = a
           /\ Tail(<<a, b>>) = <<b>> /\ Tail(<<a>>) = <<>>
           /\ <<a, b>> # <<>> /\ <<a>> # <<>>
<1>1. Range(<<a, b>>) = {a, b}
  BY DEF Range
<1>2. Range(<<a>>) = {a}
  BY DEF Range
<1>3. Range(<<>>) = {}
  BY DEF Range
<1> QED
  BY <1>1, <1>2, <1>3

\* Before the first port nothing is reached, and behind each there is one more.
LEMMA PortByPort ==
    ASSUME NEW o \in Op
    PROVE  /\ Ports(o) \in LeftOf(o)
           /\ Reached(o, Ports(o)) = {}
           /\ \A l \in LeftOf(o) : /\ l # <<>> /\ Head(l) \in Store
                                   /\ Tail(l) = <<>> \/ Tail(l) \in LeftOf(o)
                                   /\ Reached(o, Tail(l)) = Reached(o, l) \cup {Head(l)}
           /\ o \in {"review", "decide"} => "rules" \in Reached(o, <<>>)
           /\ o \in {"decide", "suppress"} => "consent" \in Reached(o, <<>>)
<1>1. CASE o = "review"
  <2> DEFINE both == <<"rules", "consent">>
             one == <<"consent">>
  <2>1. Ports(o) = both
    BY <1>1 DEF Ports
  <2>2. /\ Range(both) = {"rules", "consent"} /\ Range(one) = {"consent"} /\ Range(<<>>) = {}
        /\ Head(both) = "rules" /\ Head(one) = "consent" /\ Tail(both) = one /\ Tail(one) = <<>>
        /\ both # <<>> /\ one # <<>>
    BY ShortLists
  <2> HIDE DEF both, one
  <2>3. LeftOf(o) = {both, one}
    BY <2>1, <2>2 DEF LeftOf
  <2>4. Reached(o, both) = {} /\ Reached(o, one) = {"rules"} /\ Reached(o, <<>>) = {"rules", "consent"}
    BY <2>1, <2>2 DEF Reached, Store
  <2> QED
    BY <1>1, <2>1, <2>2, <2>3, <2>4 DEF Store
<1>2. CASE o = "assess"
  <2> DEFINE one == <<"evidence">>
  <2>1. Ports(o) = one
    BY <1>2 DEF Ports
  <2>2. /\ Range(one) = {"evidence"} /\ Range(<<>>) = {}
        /\ Head(one) = "evidence" /\ Tail(one) = <<>> /\ one # <<>>
    BY ShortLists
  <2> HIDE DEF one
  <2>3. LeftOf(o) = {one}
    BY <2>1, <2>2 DEF LeftOf
  <2>4. Reached(o, one) = {} /\ Reached(o, <<>>) = {"evidence"}
    BY <2>1, <2>2 DEF Reached, Store
  <2> QED
    BY <1>2, <2>1, <2>2, <2>3, <2>4 DEF Store
<1>3. CASE o \in {"decide", "suppress"}
  <2> DEFINE both == <<"consent", "rules">>
             one == <<"rules">>
  <2>1. Ports(o) = both
    BY <1>3 DEF Ports
  <2>2. /\ Range(both) = {"consent", "rules"} /\ Range(one) = {"rules"} /\ Range(<<>>) = {}
        /\ Head(both) = "consent" /\ Head(one) = "rules" /\ Tail(both) = one /\ Tail(one) = <<>>
        /\ both # <<>> /\ one # <<>>
    BY ShortLists
  <2> HIDE DEF both, one
  <2>3. LeftOf(o) = {both, one}
    BY <2>1, <2>2 DEF LeftOf
  <2>4. Reached(o, both) = {} /\ Reached(o, one) = {"consent"} /\ Reached(o, <<>>) = {"consent", "rules"}
    BY <2>1, <2>2 DEF Reached, Store
  <2> QED
    BY <1>3, <2>1, <2>2, <2>3, <2>4 DEF Store
<1> QED
  BY <1>1, <1>2, <1>3 DEF Op

-----------------------------------------------------------------------------
(* The puts of each store.                                                 *)

RuleRows == {[table |-> "rules", row |-> r] : r \in ALL_RULES}

LEMMA EveryMarketAsks ==
    ASSUME NEW m \in Markets, NEW v \in Verticals
    PROVE  Rule(m, v, "consent", "consent_required", Marketing) \in ALL_RULES
<1> DEFINE asks(n, w) == {Rule(n, w, "consent", "consent_required", Marketing)}
           others(n, w) == {Rule(n, w, IF c = "required_field" THEN "permission" ELSE "claim", c, Blank) :
                                c \in OtherChecks(n, w)}
           packs == {asks(n, w) \cup others(n, w) : n \in Markets, w \in Verticals}
<1>1. ALL_RULES = UNION packs
  BY DEF ALL_RULES
<1>2. Rule(m, v, "consent", "consent_required", Marketing) \in asks(m, v) \cup others(m, v)
  OBVIOUS
<1> HIDE DEF asks, others
<1>3. asks(m, v) \cup others(m, v) \in packs
  OBVIOUS
<1> HIDE DEF packs
<1> QED
  BY <1>1, <1>2, <1>3

\* The puts of a store are a list of at least one, and none is empty.
LEMMA SeedPutsAre ==
    ASSUME NEW s \in Store
    PROVE  /\ Len(SeedPuts(s)) \in Nat \ {0} /\ DOMAIN SeedPuts(s) = 1..Len(SeedPuts(s))
           /\ \A i \in 1..Len(SeedPuts(s)) : SeedPuts(s)[i] # {}
           /\ s = "rules" => Len(SeedPuts(s)) = 1 /\ Whole(s) = RuleRows
           /\ s = "consent" => /\ Whole(s) = ConsentRows
                               /\ \E r \in SeedPuts(s)[1] : r.table = "records"
<1>1. SeedPuts(s) = SeedPutsOf(s)
  BY DEF SeedPuts, SeedTable
<1>2. CASE s = "rules"
  <2>1. SeedPuts(s) = <<RuleRows>>
    BY <1>1, <1>2 DEF SeedPutsOf, RuleRows
  <2>2. RuleRows # {}
    BY EveryMarketAsks DEF RuleRows, Markets, Verticals
  <2> HIDE DEF RuleRows
  <2>3. DOMAIN SeedPuts(s) = {1} /\ Len(SeedPuts(s)) = 1 /\ SeedPuts(s)[1] = RuleRows
    BY <2>1
  <2>4. Whole(s) = RuleRows
    BY <2>3 DEF Whole
  <2> QED
    BY <1>2, <2>2, <2>3, <2>4
<1>3. CASE s = "evidence"
  <2> DEFINE rows == Rows("evidence", SEED_EVIDENCE)
  <2>1. SeedPuts(s) = [i \in DOMAIN SEED_EVIDENCE |-> {rows[i]}]
    BY <1>1, <1>3 DEF SeedPutsOf
  <2>2. DOMAIN SEED_EVIDENCE = 1..6
    BY DEF SEED_EVIDENCE
  <2> HIDE DEF rows
  <2>3. DOMAIN SeedPuts(s) = 1..6 /\ Len(SeedPuts(s)) = 6 /\ \A i \in 1..6 : SeedPuts(s)[i] = {rows[i]}
    BY <2>1, <2>2
  <2>4. \A i \in 1..6 : SeedPuts(s)[i] # {}
    BY <2>3
  <2>5. s # "rules" /\ s # "consent" /\ 6 \in Nat \ {0}
    BY <1>3
  <2> QED
    BY <2>3, <2>4, <2>5
<1>4. CASE s = "consent"
  <2>1. SeedPuts(s) = [i \in DOMAIN ConsentPuts |-> {ConsentPuts[i]}]
    BY <1>1, <1>4 DEF SeedPutsOf, ConsentPuts
  <2>2. DOMAIN ConsentPuts = 1..18
    BY ConsentPutsAre
  <2>3. /\ DOMAIN SeedPuts(s) = 1..18 /\ Len(SeedPuts(s)) = 18
        /\ \A i \in 1..18 : SeedPuts(s)[i] = {ConsentPuts[i]}
    BY <2>1, <2>2
  <2>4. Whole(s) = Range(ConsentPuts)
    BY <2>2, <2>3 DEF Whole, Range
  <2>5. \A i \in 1..18 : SeedPuts(s)[i] # {}
    BY <2>3
  <2>6. s # "rules" /\ 18 \in Nat \ {0} /\ 1 \in 1..18
    BY <1>4
  <2>7. \E r \in SeedPuts(s)[1] : r.table = "records"
    BY <2>3, <2>6, ConsentPutsAre
  <2>8. Whole(s) = ConsentRows
    BY <2>4, ConsentPutsAre
  <2> QED
    BY <2>3, <2>5, <2>6, <2>7, <2>8
<1> QED
  BY <1>2, <1>3, <1>4 DEF Store

\* What store s holds when the k-th put is next.
Before(s, k) == UNION {SeedPuts(s)[i] : i \in {j \in DOMAIN SeedPuts(s) : j < k}}

LEMMA PutByPut ==
    ASSUME NEW s \in Store, NEW k \in DOMAIN SeedPuts(s)
    PROVE  /\ Before(s, k + 1) = Before(s, k) \cup SeedPuts(s)[k]
           /\ Before(s, 1) = {}
           /\ k = Len(SeedPuts(s)) => Before(s, k + 1) = Whole(s)
           /\ Before(s, k) \subseteq Whole(s) /\ SeedPuts(s)[k] \subseteq Whole(s)
<1>1. DOMAIN SeedPuts(s) = 1..Len(SeedPuts(s)) /\ Len(SeedPuts(s)) \in Nat \ {0}
  BY SeedPutsAre
<1>2. \A j \in DOMAIN SeedPuts(s) : j < k + 1 <=> j < k \/ j = k
  BY <1>1
<1>3. \A j \in DOMAIN SeedPuts(s) : ~(j < 1)
  BY <1>1
<1>4. k = Len(SeedPuts(s)) => \A j \in DOMAIN SeedPuts(s) : j < k + 1
  BY <1>1
<1> QED
  BY <1>2, <1>3, <1>4 DEF Before, Whole

-----------------------------------------------------------------------------
(* Types.                                                                  *)

LEMMA TypeInit == Init => StoresTypeOK
<1> SUFFICES ASSUME Init PROVE StoresTypeOK
  OBVIOUS
<1>1. <<>> \in Seq(Store) /\ 0 \in Nat /\ "review" \in Op
  BY DEF Op
<1>2. requests \in 0..MaxRequests /\ deaths \in 0..MaxDeaths
  BY BoundAssumption DEF Init
<1> QED
  BY <1>1, <1>2 DEF Init, StoresTypeOK

\* What Move leaves of a worker's step and put.
LEMMA Moved ==
    ASSUME StoresTypeOK, NEW w \in Worker, NEW step, NEW k, Move(w, step, k)
    PROVE  /\ pc'[w] = step /\ nth'[w] = k
           /\ \A x \in Worker \ {w} : pc'[x] = pc[x] /\ nth'[x] = nth[x]
           /\ DOMAIN pc' = Worker /\ DOMAIN nth' = Worker
BY DEF Move, StoresTypeOK

\* What one worker's action may leave behind in the types.
LEMMA WorkerTyped ==
    ASSUME StoresTypeOK, NEW w \in Worker,
           NEW step \in {"idle", "bind", "clear", "put", "publish", "serve"},
           NEW k \in Nat, Move(w, step, k),
           NEW o \in Op, op' = [op EXCEPT ![w] = o],
           NEW l \in Seq(Store), todo' = [todo EXCEPT ![w] = l],
           l \in IF step \in {"idle", "serve"} THEN {<<>>} ELSE LeftOf(o),
           k \in IF step = "put" THEN DOMAIN SeedPuts(Head(l)) ELSE {0}
    PROVE  /\ pc' \in [Worker -> {"idle", "bind", "clear", "put", "publish", "serve"}]
           /\ op' \in [Worker -> Op] /\ todo' \in [Worker -> Seq(Store)] /\ nth' \in [Worker -> Nat]
           /\ \A x \in Worker :
                 /\ todo'[x] \in IF pc'[x] \in {"idle", "serve"} THEN {<<>>} ELSE LeftOf(op'[x])
                 /\ nth'[x] \in IF pc'[x] = "put" THEN DOMAIN SeedPuts(Head(todo'[x])) ELSE {0}
<1>1. /\ pc' \in [Worker -> {"idle", "bind", "clear", "put", "publish", "serve"}]
      /\ nth' \in [Worker -> Nat] /\ op' \in [Worker -> Op] /\ todo' \in [Worker -> Seq(Store)]
  BY DEF Move, StoresTypeOK
<1>2. /\ pc'[w] = step /\ nth'[w] = k /\ op'[w] = o /\ todo'[w] = l
      /\ \A x \in Worker \ {w} : /\ pc'[x] = pc[x] /\ nth'[x] = nth[x]
                                 /\ op'[x] = op[x] /\ todo'[x] = todo[x]
  BY DEF Move, StoresTypeOK
<1> QED
  BY <1>1, <1>2 DEF StoresTypeOK

\* The worker types, as one fact.
WorkersTyped ==
    /\ pc \in [Worker -> {"idle", "bind", "clear", "put", "publish", "serve"}]
    /\ op \in [Worker -> Op] /\ todo \in [Worker -> Seq(Store)] /\ nth \in [Worker -> Nat]
    /\ \A x \in Worker :
          /\ todo[x] \in IF pc[x] \in {"idle", "serve"} THEN {<<>>} ELSE LeftOf(op[x])
          /\ nth[x] \in IF pc[x] = "put" THEN DOMAIN SeedPuts(Head(todo[x])) ELSE {0}

Busy(w) == pc[w] \in {"bind", "clear", "put", "publish"}

\* A worker at a port is at a store, and has the rest of its ports before it.
LEMMA AtAPort ==
    ASSUME StoresTypeOK, NEW w \in Worker, Busy(w)
    PROVE  /\ todo[w] \in LeftOf(op[w]) /\ op[w] \in Op /\ Port(w) \in Store
           /\ Tail(todo[w]) \in Seq(Store)
           /\ Tail(todo[w]) = <<>> \/ Tail(todo[w]) \in LeftOf(op[w])
<1>1. todo[w] \in LeftOf(op[w]) /\ op[w] \in Op /\ todo[w] \in Seq(Store)
  BY DEF StoresTypeOK, Busy
<1>2. todo[w] # <<>> /\ Head(todo[w]) \in Store /\ (Tail(todo[w]) = <<>> \/ Tail(todo[w]) \in LeftOf(op[w]))
  BY <1>1, PortByPort
<1> QED
  BY <1>1, <1>2 DEF Port

LEMMA NextPortTyped ==
    ASSUME StoresTypeOK, NEW w \in Worker, Busy(w), NextPort(w), UNCHANGED op
    PROVE  WorkersTyped'
<1> DEFINE l == Tail(todo[w])
           step == IF l = <<>> THEN "serve" ELSE "bind"
<1>1. /\ op[w] \in Op /\ l \in Seq(Store) /\ (l = <<>> \/ l \in LeftOf(op[w]))
      /\ op' = [op EXCEPT ![w] = op[w]]
  BY AtAPort DEF NextPort, StoresTypeOK
<1>2. Move(w, step, 0) /\ todo' = [todo EXCEPT ![w] = l]
  BY DEF NextPort
<1> HIDE DEF l
<1> QED
  BY <1>1, <1>2, WorkerTyped DEF WorkersTyped

LEMMA StayTyped ==
    ASSUME StoresTypeOK, NEW w \in Worker, Busy(w),
           NEW step \in {"clear", "put", "publish"}, NEW k \in Nat, Move(w, step, k),
           k \in IF step = "put" THEN DOMAIN SeedPuts(Port(w)) ELSE {0}, UNCHANGED <<op, todo>>
    PROVE  WorkersTyped'
<1> DEFINE l == todo[w]
<1>1. /\ op[w] \in Op /\ l \in Seq(Store) /\ l \in LeftOf(op[w])
      /\ op' = [op EXCEPT ![w] = op[w]] /\ todo' = [todo EXCEPT ![w] = l]
  BY AtAPort DEF StoresTypeOK
<1>2. k \in IF step = "put" THEN DOMAIN SeedPuts(Head(l)) ELSE {0}
  BY DEF Port
<1> HIDE DEF l
<1> QED
  BY <1>1, <1>2, WorkerTyped DEF WorkersTyped

LEMMA FinishTyped ==
    ASSUME StoresTypeOK, NEW w \in Worker, Finish(w)
    PROVE  WorkersTyped'
<1>1. "review" \in Op /\ <<>> \in Seq(Store) /\ <<>> \in {<<>>} /\ 0 \in Nat /\ 0 \in {0}
  BY DEF Op
<1>2. Move(w, "idle", 0) /\ todo' = [todo EXCEPT ![w] = <<>>] /\ op' = [op EXCEPT ![w] = "review"]
  BY DEF Finish
<1> QED
  BY <1>1, <1>2, WorkerTyped DEF WorkersTyped

\* Everything but the workers.
StoresTyped ==
    /\ DOMAIN file = Store /\ \A s \in Store : file[s] \subseteq Whole(s) \cup {Stop}
    /\ writer \in [Store -> Worker \cup {Nobody}]
    /\ bound \in [Process -> SUBSET Store]
    /\ requests \in 0..MaxRequests /\ deaths \in 0..MaxDeaths
    /\ stopped \in BOOLEAN /\ raced \subseteq Store /\ torn \subseteq Store

LEMMA TypeSplit ==
    /\ StoresTypeOK <=> StoresTyped /\ WorkersTyped
    /\ StoresTypeOK' <=> StoresTyped' /\ WorkersTyped'
BY DEF StoresTypeOK, StoresTyped, WorkersTyped

\* A put adds rows of the seed to what is there.
LEMMA PutTyped ==
    ASSUME StoresTypeOK, NEW w \in Worker, Put(w)
    PROVE  StoresTyped' /\ WorkersTyped'
<1> DEFINE s == Port(w)
           n == Len(SeedPuts(s))
           kept == IF writer[s] = w THEN {} ELSE file[s]
<1>1. s \in Store /\ pc[w] = "put" /\ nth[w] \in DOMAIN SeedPuts(s)
  BY AtAPort DEF Put, Busy, StoresTypeOK, Port
<1>2. n \in Nat \ {0} /\ DOMAIN SeedPuts(s) = 1..n
  BY <1>1, SeedPutsAre
<1>3. SeedPuts(s)[nth[w]] \subseteq Whole(s)
  BY <1>1, PutByPut
<1>4. StoresTyped'
  <2>1. /\ file' = [file EXCEPT ![s] = kept \cup SeedPuts(s)[nth[w]]]
        /\ writer' = [writer EXCEPT ![s] = Nobody]
        /\ UNCHANGED <<bound, requests, deaths, stopped, raced, torn>>
    BY DEF Put
  <2>2. kept \subseteq Whole(s) \cup {Stop}
    BY <1>1 DEF StoresTypeOK
  <2> HIDE DEF s, kept
  <2> QED
    BY <1>1, <1>3, <2>1, <2>2 DEF StoresTyped, StoresTypeOK, Stop
<1>5. WorkersTyped'
  <2>1. CASE nth[w] = n
    <3>1. Move(w, "publish", 0) /\ UNCHANGED <<op, todo>>
      BY <2>1 DEF Put
    <3> QED
      BY <1>1, <3>1, StayTyped DEF Busy
  <2>2. CASE nth[w] # n
    <3>1. Move(w, "put", nth[w] + 1) /\ UNCHANGED <<op, todo>>
      BY <2>2 DEF Put
    <3>2. nth[w] + 1 \in DOMAIN SeedPuts(Port(w)) /\ nth[w] + 1 \in Nat
      BY <1>1, <1>2, <2>2
    <3> QED
      BY <1>1, <3>1, <3>2, StayTyped DEF Busy
  <2> QED
    BY <2>1, <2>2
<1> QED
  BY <1>4, <1>5

LEMMA DieTyped ==
    ASSUME StoresTypeOK, NEW p \in Process, Die(p)
    PROVE  StoresTyped' /\ WorkersTyped'
<1> DEFINE dead == {w \in Worker : Home[w] = p}
<1>1. /\ pc' = [w \in Worker |-> IF w \in dead THEN "idle" ELSE pc[w]]
      /\ todo' = [w \in Worker |-> IF w \in dead THEN <<>> ELSE todo[w]]
      /\ nth' = [w \in Worker |-> IF w \in dead THEN 0 ELSE nth[w]]
      /\ op' = [w \in Worker |-> IF w \in dead THEN "review" ELSE op[w]]
  BY DEF Die, DieWith
<1>2. /\ bound' = [bound EXCEPT ![p] = {}] /\ writer' = RolledBack(p)
      /\ deaths < MaxDeaths /\ deaths' = deaths + 1 /\ UNCHANGED <<file, requests, stopped, raced>>
  BY DEF Die, DieWith
<1>3. torn' \subseteq Store
  BY DEF Die, DieWith, StoresTypeOK
<1>4. StoresTyped'
  BY <1>2, <1>3, BoundAssumption DEF StoresTyped, StoresTypeOK, RolledBack, Stop
<1> HIDE DEF dead
<1>5. "review" \in Op /\ <<>> \in Seq(Store) /\ 0 \in Nat
  BY DEF Op
<1>6. /\ pc' \in [Worker -> {"idle", "bind", "clear", "put", "publish", "serve"}]
      /\ op' \in [Worker -> Op] /\ todo' \in [Worker -> Seq(Store)] /\ nth' \in [Worker -> Nat]
  BY <1>1, <1>5 DEF StoresTypeOK
<1>7. ASSUME NEW x \in Worker
      PROVE  /\ todo'[x] \in IF pc'[x] \in {"idle", "serve"} THEN {<<>>} ELSE LeftOf(op'[x])
             /\ nth'[x] \in IF pc'[x] = "put" THEN DOMAIN SeedPuts(Head(todo'[x])) ELSE {0}
  <2>1. CASE x \in dead
    BY <1>1, <2>1
  <2>2. CASE x \notin dead
    BY <1>1, <2>2 DEF StoresTypeOK
  <2> QED
    BY <2>1, <2>2
<1> QED
  BY <1>4, <1>6, <1>7 DEF WorkersTyped

LEMMA TypeStep == StoresTypeOK /\ [Next]_vars => StoresTypeOK'
<1> SUFFICES ASSUME StoresTypeOK, [Next]_vars PROVE StoresTyped' /\ WorkersTyped'
  BY TypeSplit
<1>1. ASSUME NEW w \in Worker, Begin(w) PROVE StoresTyped' /\ WorkersTyped'
  <2> PICK o \in Op : op' = [op EXCEPT ![w] = o] /\ todo' = [todo EXCEPT ![w] = Ports(o)]
    BY <1>1 DEF Begin
  <2>1. Ports(o) \in LeftOf(o) /\ Ports(o) \in Seq(Store)
    <3>1. /\ <<"rules", "consent">> \in Seq(Store) /\ <<"evidence">> \in Seq(Store)
          /\ <<"consent", "rules">> \in Seq(Store)
      BY DEF Store
    <3> QED
      BY <3>1, PortByPort DEF Ports
  <2>2. Move(w, "bind", 0)
    BY <1>1 DEF Begin
  <2>3. WorkersTyped'
    BY <2>1, <2>2, WorkerTyped DEF WorkersTyped
  <2>4. StoresTyped'
    BY <1>1, BoundAssumption DEF Begin, StoresTyped, StoresTypeOK, Stop
  <2> QED
    BY <2>3, <2>4
<1>2. ASSUME NEW w \in Worker, UseBound(w) PROVE StoresTyped' /\ WorkersTyped'
  <2>1. Busy(w) /\ NextPort(w) /\ UNCHANGED op
    BY <1>2 DEF UseBound, Busy
  <2>2. StoresTyped'
    BY <1>2 DEF UseBound, StoresTyped, StoresTypeOK, Stop
  <2> QED
    BY <2>1, <2>2, NextPortTyped
<1>3. ASSUME NEW w \in Worker, Construct(w) PROVE StoresTyped' /\ WorkersTyped'
  <2>1. Busy(w) /\ UNCHANGED <<op, todo>>
    BY <1>3 DEF Construct, Busy
  <2>2. Move(w, "clear", 0) \/ Move(w, "publish", 0)
    BY <1>3 DEF Construct
  <2>3. raced' \subseteq Store
    BY <1>3, <2>1, AtAPort DEF Construct, StoresTypeOK
  <2>4. StoresTyped'
    BY <1>3, <2>3 DEF Construct, StoresTyped, StoresTypeOK, Stop
  <2> QED
    BY <2>1, <2>2, <2>4, StayTyped
<1>4. ASSUME NEW w \in Worker, Clear(w) PROVE StoresTyped' /\ WorkersTyped'
  <2>1. Busy(w) /\ UNCHANGED <<op, todo>> /\ Move(w, "put", 1)
    BY <1>4 DEF Clear, Busy
  <2>2. 1 \in DOMAIN SeedPuts(Port(w))
    BY <2>1, AtAPort, SeedPutsAre
  <2>3. StoresTyped'
    BY <1>4, <2>1, AtAPort DEF Clear, StoresTyped, StoresTypeOK, Stop
  <2> QED
    BY <2>1, <2>2, <2>3, StayTyped
<1>5. ASSUME NEW w \in Worker, Publish(w) PROVE StoresTyped' /\ WorkersTyped'
  <2>1. Busy(w) /\ NextPort(w) /\ UNCHANGED op
    BY <1>5 DEF Publish, Busy
  <2>2. /\ bound' = [bound EXCEPT ![Home[w]] = @ \cup {Port(w)}]
        /\ UNCHANGED <<file, writer, requests, deaths, stopped, raced, torn>>
    BY <1>5 DEF Publish
  <2>3. bound' \in [Process -> SUBSET Store]
    BY <2>1, <2>2, AtAPort, HomeAssumption DEF StoresTypeOK
  <2>4. Stop' = Stop
    BY DEF Stop
  <2>5. StoresTyped'
    BY <2>2, <2>3, <2>4 DEF StoresTyped, StoresTypeOK
  <2> QED
    BY <2>1, <2>5, NextPortTyped
<1>6. ASSUME NEW w \in Worker, Serve(w) PROVE StoresTyped' /\ WorkersTyped'
  <2>1. Finish(w) /\ UNCHANGED <<writer, deaths, torn>>
    BY <1>6 DEF Serve
  <2>2. UNCHANGED <<bound, requests, raced>>
    BY <2>1 DEF Finish
  <2>3. \/ UNCHANGED <<file, stopped>>
        \/ file' = [file EXCEPT !["consent"] = @ \cup {Stop}] /\ stopped' = TRUE
    BY <1>6 DEF Serve
  <2>4. Stop' = Stop
    BY DEF Stop
  <2>5. DOMAIN file' = Store /\ \A s \in Store : file'[s] \subseteq Whole(s) \cup {Stop}
    BY <2>3 DEF StoresTypeOK
  <2>6. stopped' \in BOOLEAN
    BY <2>3 DEF StoresTypeOK
  <2>7. StoresTyped'
    BY <2>1, <2>2, <2>4, <2>5, <2>6 DEF StoresTyped, StoresTypeOK
  <2> QED
    BY <2>1, <2>7, FinishTyped
<1>7. ASSUME NEW w \in Worker, Locked(w) PROVE StoresTyped' /\ WorkersTyped'
  <2>1. Finish(w) /\ UNCHANGED <<file, writer, deaths, stopped>>
    BY <1>7 DEF Locked
  <2>2. torn' \subseteq Store
    <3>1. torn' = torn \/ (Busy(w) /\ torn' = torn \cup {s \in {Port(w)} : nth[w] > 1})
      BY <1>7 DEF Locked, Busy
    <3> QED
      BY <3>1, AtAPort DEF StoresTypeOK
  <2>3. StoresTyped'
    BY <2>1, <2>2 DEF Finish, StoresTyped, StoresTypeOK, Stop
  <2> QED
    BY <2>1, <2>3, FinishTyped
<1>8. CASE UNCHANGED vars
  BY <1>8 DEF vars, worker, StoresTypeOK, StoresTyped, WorkersTyped, Stop
<1> QED
  BY <1>1, <1>2, <1>3, <1>4, <1>5, <1>6, <1>7, <1>8, PutTyped, DieTyped DEF Next, Work

\* In every run each worker's step, request, ports and put fit together, and no
\* file holds a row that neither the seed nor a request put there.
THEOREM StoresTypeCorrect == Spec => []StoresTypeOK
BY TypeInit, TypeStep, PTL DEF Spec

-----------------------------------------------------------------------------
(* What a step of one worker leaves alone.                                 *)

\* The ports a worker's request has an adapter for: those it has left behind,
\* and the one whose adapter it is about to publish.
Has(w, s) ==
    \/ pc[w] = "publish" /\ s = Port(w)
    \/ pc[w] # "idle" /\ s \in Reached(op[w], todo[w])

Writing(w, s) == pc[w] = "put" /\ Port(w) = s

Seeds(w, s) == pc[w] \in {"clear", "put"} /\ Port(w) = s

Acts(w) == Begin(w) \/ Work(w) \/ Locked(w)

LEMMA OthersStay ==
    ASSUME StoresTypeOK, NEW w \in Worker, Acts(w), NEW x \in Worker, x # w
    PROVE  pc'[x] = pc[x] /\ op'[x] = op[x] /\ todo'[x] = todo[x] /\ nth'[x] = nth[x]
<1>1. CASE Begin(w)
  BY <1>1 DEF Begin, Move, StoresTypeOK
<1>2. CASE UseBound(w) \/ Publish(w)
  BY <1>2 DEF UseBound, Publish, NextPort, Move, StoresTypeOK
<1>3. CASE Construct(w) \/ Clear(w)
  BY <1>3 DEF Construct, Clear, Move, StoresTypeOK
<1>4. CASE Put(w)
  BY <1>4 DEF Put, Move, StoresTypeOK
<1>5. CASE Serve(w) \/ Locked(w)
  BY <1>5 DEF Serve, Locked, Finish, Move, StoresTypeOK
<1> QED
  BY <1>1, <1>2, <1>3, <1>4, <1>5 DEF Acts, Work

\* So the stores the others have, write or seed stay the same.
LEMMA OthersDo ==
    ASSUME StoresTypeOK, NEW w \in Worker, Acts(w), NEW x \in Worker, x # w, NEW s
    PROVE  (Has(x, s)' <=> Has(x, s)) /\ (Writing(x, s)' <=> Writing(x, s))
           /\ (Seeds(x, s)' <=> Seeds(x, s))
<1>1. pc'[x] = pc[x] /\ op'[x] = op[x] /\ todo'[x] = todo[x] /\ nth'[x] = nth[x]
  BY OthersStay
<1> QED
  BY <1>1 DEF Has, Writing, Seeds, Port, Reached

\* The workers of a process that dies are idle, and the others go on.
LEMMA DeadStop ==
    ASSUME StoresTypeOK, NEW p \in Process, Die(p), NEW x \in Worker
    PROVE  /\ Home[x] = p => pc'[x] = "idle"
           /\ Home[x] # p => /\ pc'[x] = pc[x] /\ op'[x] = op[x] /\ todo'[x] = todo[x]
                             /\ nth'[x] = nth[x]
BY DEF Die, DieWith

LEMMA DeadDoNothing ==
    ASSUME StoresTypeOK, NEW p \in Process, Die(p), NEW x \in Worker, NEW s
    PROVE  /\ Home[x] = p => ~Has(x, s)' /\ ~Writing(x, s)' /\ ~Seeds(x, s)'
           /\ Home[x] # p => /\ Has(x, s)' <=> Has(x, s)
                             /\ Writing(x, s)' <=> Writing(x, s)
                             /\ Seeds(x, s)' <=> Seeds(x, s)
<1>1. CASE Home[x] = p
  BY <1>1, DeadStop DEF Has, Writing, Seeds
<1>2. CASE Home[x] # p
  <2>1. pc'[x] = pc[x] /\ op'[x] = op[x] /\ todo'[x] = todo[x] /\ nth'[x] = nth[x]
    BY <1>2, DeadStop
  <2> QED
    BY <1>2, <2>1 DEF Has, Writing, Seeds, Port, Reached
<1> QED
  BY <1>1, <1>2

-----------------------------------------------------------------------------
(* Who writes.                                                             *)

\* A write transaction is open for the one worker whose first put is next.
WritersOK ==
    \A s \in Store, w \in Worker : writer[s] = w <=> Writing(w, s) /\ nth[w] = 1

LEMMA WritersInit == Init => WritersOK
BY NobodyIsNoWorker DEF Init, WritersOK, Writing

\* A step that neither opens a transaction nor closes one.
LEMMA WritersKept ==
    ASSUME StoresTypeOK, WritersOK, NEW w \in Worker, Acts(w), UNCHANGED writer,
           ~(pc[w] = "put" /\ nth[w] = 1), pc'[w] # "put"
    PROVE  WritersOK'
<1> SUFFICES ASSUME NEW s \in Store, NEW x \in Worker
             PROVE  writer'[s] = x <=> Writing(x, s)' /\ nth'[x] = 1
  BY DEF WritersOK
<1>1. writer'[s] = x <=> Writing(x, s) /\ nth[x] = 1
  BY DEF WritersOK
<1>2. CASE x = w
  BY <1>1, <1>2 DEF Writing
<1>3. CASE x # w
  BY <1>1, <1>3, OthersStay, OthersDo
<1> QED
  BY <1>2, <1>3

\* What the k-th put of a worker does to its store and to its step.
LEMMA PutIsNext ==
    ASSUME StoresTypeOK, WritersOK, NEW w \in Worker, Put(w)
    PROVE  LET s == Port(w)
           IN  /\ s \in Store /\ pc[w] = "put"
               /\ nth[w] \in Nat \ {0} /\ nth[w] \in DOMAIN SeedPuts(s)
               /\ nth[w] = 1 => file'[s] = SeedPuts(s)[1]
               /\ nth[w] > 1 => file'[s] = file[s] \cup SeedPuts(s)[nth[w]]
               /\ \A u \in Store \ {s} : file'[u] = file[u] /\ writer'[u] = writer[u]
               /\ writer[s] \in {w, Nobody} /\ writer'[s] = Nobody
               /\ nth[w] = Len(SeedPuts(s)) => pc'[w] = "publish"
               /\ nth[w] # Len(SeedPuts(s)) => pc'[w] = "put" /\ nth'[w] = nth[w] + 1
               /\ UNCHANGED <<bound, op, todo, stopped, raced, torn>>
<1> DEFINE s == Port(w)
           n == Len(SeedPuts(s))
<1>1. s \in Store /\ pc[w] = "put" /\ nth[w] \in DOMAIN SeedPuts(s)
  BY AtAPort DEF Put, Busy, StoresTypeOK, Port
<1>2. n \in Nat \ {0} /\ DOMAIN SeedPuts(s) = 1..n
  BY <1>1, SeedPutsAre
<1>3. nth[w] \in Nat \ {0}
  BY <1>1, <1>2
<1>4. writer[s] = w <=> nth[w] = 1
  BY <1>1 DEF WritersOK, Writing
<1>5. /\ file' = [file EXCEPT ![s] = (IF writer[s] = w THEN {} ELSE file[s]) \cup SeedPuts(s)[nth[w]]]
      /\ writer' = [writer EXCEPT ![s] = Nobody] /\ writer[s] \in {w, Nobody}
      /\ UNCHANGED <<bound, op, todo, stopped, raced, torn>>
  BY DEF Put
<1>6. DOMAIN file = Store /\ DOMAIN writer = Store
  BY DEF StoresTypeOK
<1>7. nth[w] = n => pc'[w] = "publish"
  <2> SUFFICES ASSUME nth[w] = n PROVE pc'[w] = "publish"
    OBVIOUS
  <2>1. Move(w, "publish", 0)
    BY DEF Put
  <2> QED
    BY <2>1, Moved
<1>8. nth[w] # n => pc'[w] = "put" /\ nth'[w] = nth[w] + 1
  <2> SUFFICES ASSUME nth[w] # n PROVE pc'[w] = "put" /\ nth'[w] = nth[w] + 1
    OBVIOUS
  <2>1. Move(w, "put", nth[w] + 1)
    BY DEF Put
  <2> QED
    BY <2>1, Moved
<1> HIDE DEF s, n
<1>9. nth[w] = 1 => file'[s] = SeedPuts(s)[1]
  BY <1>1, <1>4, <1>5, <1>6
<1>10. nth[w] > 1 => file'[s] = file[s] \cup SeedPuts(s)[nth[w]]
  <2>1. nth[w] > 1 => nth[w] # 1
    BY <1>3
  <2> QED
    BY <1>1, <1>4, <1>5, <1>6, <2>1
<1>11. \A u \in Store \ {s} : file'[u] = file[u] /\ writer'[u] = writer[u]
  BY <1>5, <1>6
<1>12. writer'[s] = Nobody
  BY <1>1, <1>5, <1>6
<1> QED
  BY <1>1, <1>3, <1>5, <1>7, <1>8, <1>9, <1>10, <1>11, <1>12 DEF s, n

LEMMA WritersStep == StoresTypeOK /\ WritersOK /\ [Next]_vars => WritersOK'
<1> SUFFICES ASSUME StoresTypeOK, WritersOK, [Next]_vars PROVE WritersOK'
  OBVIOUS
<1>1. ASSUME NEW w \in Worker, Begin(w) PROVE WritersOK'
  <2>1. pc[w] = "idle" /\ UNCHANGED writer /\ Move(w, "bind", 0) /\ Acts(w)
    BY <1>1 DEF Begin, Acts
  <2> QED
    BY <2>1, Moved, WritersKept
<1>2. ASSUME NEW w \in Worker, UseBound(w) PROVE WritersOK'
  <2>1. pc[w] = "bind" /\ UNCHANGED writer /\ NextPort(w) /\ Acts(w)
    BY <1>2 DEF UseBound, Acts, Work
  <2>2. pc'[w] # "put"
    BY <2>1, Moved DEF NextPort
  <2> QED
    BY <2>1, <2>2, WritersKept
<1>3. ASSUME NEW w \in Worker, Construct(w) PROVE WritersOK'
  <2>1. pc[w] = "bind" /\ UNCHANGED writer /\ Acts(w)
    BY <1>3 DEF Construct, Acts, Work
  <2>2. Move(w, "clear", 0) \/ Move(w, "publish", 0)
    BY <1>3 DEF Construct
  <2>3. pc'[w] # "put"
    BY <2>2, Moved
  <2> QED
    BY <2>1, <2>3, WritersKept
<1>4. ASSUME NEW w \in Worker, Clear(w) PROVE WritersOK'
  <2>1. /\ pc[w] = "clear" /\ writer[Port(w)] = Nobody /\ writer' = [writer EXCEPT ![Port(w)] = w]
        /\ todo' = todo /\ Acts(w)
    BY <1>4 DEF Clear, Acts, Work
  <2>2. pc'[w] = "put" /\ nth'[w] = 1
    BY <1>4, Moved DEF Clear
  <2>3. Port(w) \in Store /\ DOMAIN writer = Store
    BY <2>1, AtAPort DEF Busy, StoresTypeOK
  <2> SUFFICES ASSUME NEW s \in Store, NEW x \in Worker
               PROVE  writer'[s] = x <=> Writing(x, s)' /\ nth'[x] = 1
    BY DEF WritersOK
  <2>4. writer[s] = x <=> Writing(x, s) /\ nth[x] = 1
    BY DEF WritersOK
  <2>5. CASE x = w
    <3>1. Writing(w, s)' <=> s = Port(w)
      BY <2>1, <2>2 DEF Writing, Port
    <3>2. writer'[s] = w <=> s = Port(w)
      BY <2>1, <2>3, <2>4, <2>5 DEF Writing
    <3> QED
      BY <2>2, <2>5, <3>1, <3>2
  <2>6. CASE x # w
    <3>1. writer'[s] = x <=> writer[s] = x
      BY <2>1, <2>3, <2>6, NobodyIsNoWorker
    <3> QED
      BY <2>1, <2>4, <2>6, <3>1, OthersStay, OthersDo
  <2> QED
    BY <2>5, <2>6
<1>5. ASSUME NEW w \in Worker, Put(w) PROVE WritersOK'
  <2> DEFINE s0 == Port(w)
  <2>1. /\ s0 \in Store /\ nth[w] \in Nat \ {0} /\ writer[s0] \in {w, Nobody} /\ writer'[s0] = Nobody
        /\ \A u \in Store \ {s0} : writer'[u] = writer[u]
        /\ todo' = todo
        /\ pc'[w] = "publish" \/ (pc'[w] = "put" /\ nth'[w] = nth[w] + 1)
    BY <1>5, PutIsNext
  <2>2. ~(pc'[w] = "put" /\ nth'[w] = 1)
    BY <2>1
  <2>3. Acts(w) /\ pc[w] = "put"
    BY <1>5 DEF Acts, Work, Put
  <2> SUFFICES ASSUME NEW s \in Store, NEW x \in Worker
               PROVE  writer'[s] = x <=> Writing(x, s)' /\ nth'[x] = 1
    BY DEF WritersOK
  <2>4. writer[s] = x <=> Writing(x, s) /\ nth[x] = 1
    BY DEF WritersOK
  <2>5. CASE x = w
    <3>1. ~(Writing(w, s)' /\ nth'[w] = 1)
      BY <2>2 DEF Writing
    <3>2. writer'[s] # w
      <4>1. CASE s = s0
        BY <2>1, <4>1, NobodyIsNoWorker
      <4>2. CASE s # s0
        BY <2>1, <2>4, <2>5, <4>2 DEF Writing
      <4> QED
        BY <4>1, <4>2
    <3> QED
      BY <2>5, <3>1, <3>2
  <2>6. CASE x # w
    <3>1. writer'[s] = x <=> writer[s] = x
      <4>1. CASE s = s0
        BY <2>1, <2>6, <4>1, NobodyIsNoWorker
      <4>2. CASE s # s0
        BY <2>1, <4>2
      <4> QED
        BY <4>1, <4>2
    <3> QED
      BY <2>3, <2>4, <2>6, <3>1, OthersStay, OthersDo
  <2> QED
    BY <2>5, <2>6
<1>6. ASSUME NEW w \in Worker, Publish(w) PROVE WritersOK'
  <2>1. pc[w] = "publish" /\ UNCHANGED writer /\ NextPort(w) /\ Acts(w)
    BY <1>6 DEF Publish, Acts, Work
  <2>2. pc'[w] # "put"
    BY <2>1, Moved DEF NextPort
  <2> QED
    BY <2>1, <2>2, WritersKept
<1>7. ASSUME NEW w \in Worker, Serve(w) PROVE WritersOK'
  <2>1. pc[w] = "serve" /\ UNCHANGED writer /\ Finish(w) /\ Acts(w)
    BY <1>7 DEF Serve, Acts, Work
  <2>2. pc'[w] # "put"
    BY <2>1, Moved DEF Finish
  <2> QED
    BY <2>1, <2>2, WritersKept
<1>8. ASSUME NEW w \in Worker, Locked(w) PROVE WritersOK'
  <2>1. UNCHANGED writer /\ Finish(w) /\ Acts(w)
    BY <1>8 DEF Locked, Acts
  <2>2. pc'[w] # "put"
    BY <2>1, Moved DEF Finish
  <2>3. ~(pc[w] = "put" /\ nth[w] = 1)
    <3> SUFFICES ASSUME pc[w] = "put", nth[w] = 1 PROVE FALSE
      OBVIOUS
    <3>1. Port(w) \in Store /\ writer[Port(w)] \notin {w, Nobody}
      BY <1>8, AtAPort DEF Locked, Busy
    <3> QED
      BY <3>1 DEF WritersOK, Writing
  <2> QED
    BY <2>1, <2>2, <2>3, WritersKept
<1>9. ASSUME NEW p \in Process, Die(p) PROVE WritersOK'
  <2>1. writer' = RolledBack(p)
    BY <1>9 DEF Die, DieWith
  <2> SUFFICES ASSUME NEW s \in Store, NEW x \in Worker
               PROVE  writer'[s] = x <=> Writing(x, s)' /\ nth'[x] = 1
    BY DEF WritersOK
  <2>2. writer'[s] = x <=> writer[s] = x /\ Home[x] # p
    BY <2>1, NobodyIsNoWorker DEF RolledBack
  <2>3. writer[s] = x <=> Writing(x, s) /\ nth[x] = 1
    BY DEF WritersOK
  <2> QED
    BY <1>9, <2>2, <2>3, DeadDoNothing, DeadStop
<1>10. CASE UNCHANGED vars
  BY <1>10 DEF vars, worker, WritersOK, Writing, Port
<1> QED
  BY <1>1, <1>2, <1>3, <1>4, <1>5, <1>6, <1>7, <1>8, <1>9, <1>10 DEF Next, Work

-----------------------------------------------------------------------------
(* What is used was filled.                                                *)

\* A worker comes to have one more port at most, the one it is at: it was
\* bound, or its file was not empty, or this put has filled it.
LEMMA HasMore ==
    ASSUME StoresTypeOK, WritersOK, NEW w \in Worker, Acts(w), NEW s \in Store, Has(w, s)'
    PROVE  \/ Has(w, s)
           \/ /\ s = Port(w)
              /\ \/ s \in bound[Home[w]]
                 \/ Construct(w) /\ ~IsEmpty(s)
                 \/ Put(w) /\ nth[w] = Len(SeedPuts(s))
<1>1. ASSUME Begin(w) PROVE FALSE
  <2>1. PICK o \in Op : op' = [op EXCEPT ![w] = o] /\ todo' = [todo EXCEPT ![w] = Ports(o)]
    BY <1>1 DEF Begin
  <2>2. op'[w] = o /\ todo'[w] = Ports(o) /\ pc'[w] = "bind"
    BY <1>1, <2>1, Moved DEF Begin, StoresTypeOK
  <2>3. Reached(o, Ports(o)) = {}
    BY PortByPort
  <2> QED
    BY <2>2, <2>3 DEF Has, Reached
<1>2. ASSUME Busy(w), NextPort(w), UNCHANGED op, pc[w] \in {"bind", "publish"}
      PROVE  Has(w, s) \/ (s = Port(w) /\ pc[w] = "bind")
  <2>1. pc'[w] \in {"serve", "bind"} /\ todo'[w] = Tail(todo[w]) /\ op'[w] = op[w]
    BY <1>2, Moved DEF NextPort, StoresTypeOK
  <2>2. s \in Reached(op[w], Tail(todo[w]))
    BY <2>1 DEF Has, Reached
  <2>3. Reached(op[w], Tail(todo[w])) = Reached(op[w], todo[w]) \cup {Port(w)}
    BY <1>2, AtAPort, PortByPort DEF Port
  <2> QED
    BY <1>2, <2>2, <2>3 DEF Has
<1>3. CASE UseBound(w)
  <2>1. Busy(w) /\ NextPort(w) /\ UNCHANGED op /\ pc[w] = "bind" /\ Port(w) \in bound[Home[w]]
    BY <1>3 DEF UseBound, Busy
  <2> QED
    BY <1>2, <2>1
<1>4. CASE Publish(w)
  <2>1. Busy(w) /\ NextPort(w) /\ UNCHANGED op /\ pc[w] = "publish"
    BY <1>4 DEF Publish, Busy
  <2> QED
    BY <1>2, <2>1
<1>5. ASSUME UNCHANGED <<op, todo>>, pc[w] # "idle", pc'[w] # "publish"
      PROVE  Has(w, s)
  BY <1>5 DEF Has, Reached
<1>6. ASSUME UNCHANGED <<op, todo>>, pc[w] # "idle", pc'[w] = "publish"
      PROVE  Has(w, s) \/ s = Port(w)
  BY <1>6 DEF Has, Reached, Port
<1>7. CASE Construct(w)
  <2>1. UNCHANGED <<op, todo>> /\ pc[w] # "idle"
    BY <1>7 DEF Construct
  <2>2. pc'[w] = IF IsEmpty(Port(w)) THEN "clear" ELSE "publish"
    BY <1>7, Moved DEF Construct
  <2> QED
    BY <1>5, <1>6, <1>7, <2>1, <2>2
<1>8. CASE Clear(w)
  <2>1. UNCHANGED <<op, todo>> /\ pc[w] # "idle" /\ pc'[w] # "publish"
    BY <1>8, Moved DEF Clear
  <2> QED
    BY <1>5, <2>1
<1>9. CASE Put(w)
  <2>1. UNCHANGED <<op, todo>> /\ pc[w] # "idle"
    BY <1>9 DEF Put
  <2>2. nth[w] # Len(SeedPuts(Port(w))) => pc'[w] # "publish"
    BY <1>9, PutIsNext
  <2> QED
    BY <1>5, <1>6, <1>9, <2>1, <2>2
<1>10. ASSUME Finish(w) PROVE FALSE
  BY <1>10, Moved DEF Finish, Has
<1> QED
  BY <1>1, <1>3, <1>4, <1>7, <1>8, <1>9, <1>10 DEF Acts, Work, Serve, Locked

\* Nobody empties a file for others to see.
LEMMA NeverEmptied ==
    ASSUME StoresTypeOK, WritersOK, [Next]_vars, NEW s \in Store, file[s] # {}
    PROVE  file'[s] # {}
<1>1. ASSUME NEW w \in Worker, Put(w) PROVE file'[s] # {}
  <2> DEFINE u == Port(w)
  <2>1. /\ u \in Store /\ nth[w] \in Nat \ {0} /\ nth[w] \in DOMAIN SeedPuts(u)
        /\ nth[w] = 1 => file'[u] = SeedPuts(u)[1]
        /\ nth[w] > 1 => file'[u] = file[u] \cup SeedPuts(u)[nth[w]]
        /\ \A v \in Store \ {u} : file'[v] = file[v]
    BY <1>1, PutIsNext
  <2> HIDE DEF u
  <2>2. SeedPuts(u)[nth[w]] # {}
    BY <2>1, SeedPutsAre
  <2>3. nth[w] = 1 \/ nth[w] > 1
    BY <2>1
  <2> QED
    BY <2>1, <2>2, <2>3
<1>2. ASSUME NEW w \in Worker, Serve(w) PROVE file'[s] # {}
  <2>1. file' = file \/ file' = [file EXCEPT !["consent"] = @ \cup {Stop}]
    BY <1>2 DEF Serve
  <2>2. DOMAIN file = Store
    BY DEF StoresTypeOK
  <2>3. file[s] \subseteq file'[s]
    BY <2>1, <2>2
  <2> QED
    BY <2>3
<1>3. CASE UNCHANGED file
  BY <1>3
<1> QED
  BY <1>1, <1>2, <1>3
     DEF Next, Work, Begin, UseBound, Construct, Clear, Publish, Locked, Die, DieWith, vars

Used(s) ==
    \/ \E p \in Process : s \in bound[p]
    \/ \E w \in Worker : Has(w, s) \/ (Writing(w, s) /\ nth[w] > 1)

\* A store that is bound, served from, or past its first put holds rows.
UsedAreFilled == \A s \in Store : Used(s) => file[s] # {}

LEMMA UsedInit == Init => UsedAreFilled
BY DEF Init, UsedAreFilled, Used, Has, Writing

LEMMA UsedStep ==
    StoresTypeOK /\ WritersOK /\ UsedAreFilled /\ [Next]_vars => UsedAreFilled'
<1> SUFFICES ASSUME StoresTypeOK, WritersOK, UsedAreFilled, [Next]_vars,
                    NEW s \in Store, Used(s)'
             PROVE  file'[s] # {}
  BY DEF UsedAreFilled
<1>1. CASE file[s] # {}
  BY <1>1, NeverEmptied
<1>2. ASSUME file[s] = {} PROVE file'[s] # {}
  <2>1. ~Used(s)
    BY <1>2 DEF UsedAreFilled
  <2>2. IsEmpty(s)
    BY <1>2 DEF IsEmpty
  <2>3. ASSUME NEW w \in Worker, Acts(w), Has(w, s)' PROVE file'[s] # {}
    <3>1. ~Has(w, s) /\ s \notin bound[Home[w]]
      BY <2>1, HomeAssumption DEF Used
    <3>2. s = Port(w) /\ Put(w) /\ nth[w] = Len(SeedPuts(s))
      BY <2>2, <2>3, <3>1, HasMore
    <3>3. nth[w] \in Nat \ {0} /\ nth[w] \in DOMAIN SeedPuts(s)
      BY <3>2, PutIsNext
    <3>4. ~(nth[w] > 1)
      BY <2>1, <3>2 DEF Used, Writing, Put
    <3>5. nth[w] = 1
      BY <3>3, <3>4
    <3>6. file'[s] = SeedPuts(s)[1]
      BY <3>2, <3>5, PutIsNext
    <3> QED
      BY <3>3, <3>5, <3>6, SeedPutsAre
  <2>4. ASSUME NEW w \in Worker, Acts(w), Writing(w, s)', nth'[w] > 1 PROVE file'[s] # {}
    <3>1. pc'[w] = "put"
      BY <2>4 DEF Writing
    <3>2. ASSUME ~Put(w) PROVE FALSE
      <4>1. CASE Begin(w)
        BY <3>1, <4>1, Moved DEF Begin
      <4>2. CASE UseBound(w) \/ Publish(w)
        BY <3>1, <4>2, Moved DEF UseBound, Publish, NextPort
      <4>3. CASE Construct(w)
        BY <3>1, <4>3, Moved DEF Construct
      <4>4. CASE Clear(w)
        BY <2>4, <4>4, Moved DEF Clear
      <4>5. CASE Serve(w) \/ Locked(w)
        BY <3>1, <4>5, Moved DEF Serve, Locked, Finish
      <4> QED
        BY <2>4, <3>2, <4>1, <4>2, <4>3, <4>4, <4>5 DEF Acts, Work
    <3>3. Put(w) /\ Port(w) = s
      BY <2>4, <3>2 DEF Put, Writing, Port
    <3>4. nth[w] \in Nat \ {0} /\ nth[w] \in DOMAIN SeedPuts(s)
      BY <3>3, PutIsNext
    <3>5. file'[s] = SeedPuts(s)[1] \/ file'[s] = file[s] \cup SeedPuts(s)[nth[w]]
      BY <3>3, <3>4, PutIsNext
    <3>6. 1 \in DOMAIN SeedPuts(s)
      BY SeedPutsAre
    <3> QED
      BY <3>4, <3>5, <3>6, SeedPutsAre
  <2>5. ASSUME NEW w \in Worker, Acts(w), NEW p \in Process, s \in bound'[p] PROVE file'[s] # {}
    <3>1. s \notin bound[p]
      BY <2>1 DEF Used
    <3>2. Publish(w)
      BY <2>5, <3>1 DEF Acts, Work, Begin, UseBound, Construct, Clear, Put, Serve, Locked, Finish
    <3>3. s = Port(w)
      BY <2>5, <3>1, <3>2 DEF Publish, StoresTypeOK
    <3>4. Has(w, s)
      BY <3>2, <3>3 DEF Publish, Has
    <3> QED
      BY <2>1, <3>4 DEF Used
  <2>6. ASSUME NEW w \in Worker, Acts(w) PROVE file'[s] # {}
    <3>1. ASSUME NEW x \in Worker, Has(x, s)' \/ (Writing(x, s)' /\ nth'[x] > 1) PROVE file'[s] # {}
      <4>1. CASE x = w
        BY <2>3, <2>4, <2>6, <3>1, <4>1
      <4>2. CASE x # w
        BY <2>1, <2>6, <3>1, <4>2, OthersStay, OthersDo DEF Used
      <4> QED
        BY <4>1, <4>2
    <3> QED
      BY <2>5, <2>6, <3>1 DEF Used
  <2>7. ASSUME NEW p \in Process, Die(p) PROVE FALSE
    <3>1. \A q \in Process : bound'[q] \subseteq bound[q]
      BY <2>7 DEF Die, DieWith, StoresTypeOK
    <3>2. \A x \in Worker : Has(x, s)' \/ (Writing(x, s)' /\ nth'[x] > 1)
                               => Has(x, s) \/ (Writing(x, s) /\ nth[x] > 1)
      BY <2>7, DeadStop, DeadDoNothing
    <3> QED
      BY <2>1, <3>1, <3>2 DEF Used
  <2>8. ASSUME UNCHANGED vars PROVE FALSE
    BY <2>1, <2>8 DEF vars, worker, Used, Has, Writing, Port, Reached
  <2> QED
    BY <2>6, <2>7, <2>8 DEF Next, Acts, Work
<1> QED
  BY <1>1, <1>2

-----------------------------------------------------------------------------
(* What a file holds.                                                      *)

\* The rule index holds the whole pack or nothing.
RulesExact == file["rules"] = {} \/ file["rules"] = RuleRows

\* Unless its seeding was cut off, a file is empty or whole, or the worker
\* that opened the last transaction on it is still at it.
SeedersFill ==
    \A s \in Store \ torn :
        \/ file[s] = {}
        \/ Whole(s) \subseteq file[s]
        \/ \E w \in Worker : Writing(w, s) /\ nth[w] > 1 /\ Before(s, nth[w]) \subseteq file[s]

\* A put leaves the store with what was put before it and this.
LEMMA PutFills ==
    ASSUME StoresTypeOK, WritersOK, NEW w \in Worker, Put(w),
           nth[w] = 1 \/ Before(Port(w), nth[w]) \subseteq file[Port(w)]
    PROVE  LET s == Port(w)
           IN  \/ Whole(s) \subseteq file'[s]
               \/ Writing(w, s)' /\ nth'[w] > 1 /\ Before(s, nth'[w]) \subseteq file'[s]
<1> DEFINE s == Port(w)
           k == nth[w]
<1>1. /\ s \in Store /\ k \in Nat \ {0} /\ k \in DOMAIN SeedPuts(s)
      /\ k = 1 => file'[s] = SeedPuts(s)[1]
      /\ k > 1 => file'[s] = file[s] \cup SeedPuts(s)[k]
      /\ k # Len(SeedPuts(s)) => pc'[w] = "put" /\ nth'[w] = k + 1
      /\ todo' = todo
  BY PutIsNext
<1>2. Before(s, k + 1) \subseteq file'[s]
  <2>1. Before(s, k + 1) = Before(s, k) \cup SeedPuts(s)[k] /\ Before(s, 1) = {}
    BY <1>1, PutByPut
  <2>2. CASE k = 1
    BY <1>1, <2>1, <2>2
  <2>3. CASE k # 1
    <3>1. k > 1
      BY <1>1, <2>3
    <3> QED
      BY <1>1, <2>1, <2>3, <3>1
  <2> QED
    BY <2>2, <2>3
<1>3. CASE k = Len(SeedPuts(s))
  BY <1>1, <1>2, <1>3, PutByPut
<1>4. CASE k # Len(SeedPuts(s))
  <2>1. Writing(w, s)'
    BY <1>1, <1>4 DEF Writing, Port
  <2>2. nth'[w] = k + 1 /\ nth'[w] > 1
    BY <1>1, <1>4
  <2> QED
    BY <1>2, <2>1, <2>2
<1> QED
  BY <1>3, <1>4

\* A step that leaves the rows of s where they are, or adds to them, while its
\* writers go on.
LEMMA StillFilled ==
    ASSUME NEW s,
           \/ Whole(s) \subseteq file[s]
           \/ \E x \in Worker : Writing(x, s) /\ nth[x] > 1 /\ Before(s, nth[x]) \subseteq file[s],
           file[s] \subseteq file'[s],
           \A x \in Worker : Writing(x, s) /\ nth[x] > 1 => Writing(x, s)' /\ nth'[x] = nth[x]
    PROVE  \/ Whole(s) \subseteq file'[s]
           \/ \E x \in Worker : Writing(x, s)' /\ nth'[x] > 1 /\ Before(s, nth'[x]) \subseteq file'[s]
<1>1. CASE Whole(s) \subseteq file[s]
  BY <1>1
<1>2. ASSUME NEW x \in Worker, Writing(x, s), nth[x] > 1, Before(s, nth[x]) \subseteq file[s]
      PROVE  Writing(x, s)' /\ nth'[x] > 1 /\ Before(s, nth'[x]) \subseteq file'[s]
  <2>1. Writing(x, s)' /\ nth'[x] = nth[x]
    BY <1>2
  <2> QED
    BY <1>2, <2>1
<1> QED
  BY <1>1, <1>2

LEMMA FillStep ==
    StoresTypeOK /\ WritersOK /\ UsedAreFilled /\ SeedersFill /\ [Next]_vars => SeedersFill'
<1> SUFFICES ASSUME StoresTypeOK, WritersOK, UsedAreFilled, SeedersFill, [Next]_vars,
                    NEW s \in Store, s \notin torn'
             PROVE  \/ file'[s] = {}
                    \/ Whole(s) \subseteq file'[s]
                    \/ \E x \in Worker : /\ Writing(x, s)' /\ nth'[x] > 1
                                         /\ Before(s, nth'[x]) \subseteq file'[s]
  BY DEF SeedersFill, Whole, Before
<1> DEFINE Fills == \/ Whole(s) \subseteq file'[s]
                    \/ \E x \in Worker : /\ Writing(x, s)' /\ nth'[x] > 1
                                         /\ Before(s, nth'[x]) \subseteq file'[s]
<1>1. s \notin torn
  BY DEF Next, Work, Begin, UseBound, Construct, Clear, Put, Publish, Serve, Locked, Die, DieWith, vars
<1>2. \/ file[s] = {}
      \/ Whole(s) \subseteq file[s]
      \/ \E x \in Worker : Writing(x, s) /\ nth[x] > 1 /\ Before(s, nth[x]) \subseteq file[s]
  BY <1>1 DEF SeedersFill
<1>3. ASSUME NEW w \in Worker, Put(w) PROVE file'[s] = {} \/ Fills
  <2>1. Acts(w)
    BY <1>3 DEF Acts, Work
  <2>2. CASE s # Port(w)
    <3>1. file'[s] = file[s]
      BY <1>3, <2>2, PutIsNext
    <3>2. \A x \in Worker : Writing(x, s) => x # w
      BY <2>2 DEF Writing
    <3>3. \A x \in Worker : Writing(x, s) /\ nth[x] > 1 => Writing(x, s)' /\ nth'[x] = nth[x]
      BY <2>1, <3>2, OthersStay, OthersDo
    <3> QED
      BY <1>2, <3>1, <3>3, StillFilled
  <2>3. CASE s = Port(w) /\ (nth[w] = 1 \/ Before(s, nth[w]) \subseteq file[s])
    <3>1. \/ Whole(Port(w)) \subseteq file'[Port(w)]
          \/ /\ Writing(w, Port(w))' /\ nth'[w] > 1
             /\ Before(Port(w), nth'[w]) \subseteq file'[Port(w)]
      BY <1>3, <2>3, PutFills
    <3>2. Writing(w, Port(w))' /\ nth'[w] > 1 => Port(w)' = Port(w)
      BY <1>3 DEF Put, Port
    <3> QED
      BY <2>3, <3>1, <3>2
  <2>4. CASE s = Port(w) /\ nth[w] # 1 /\ ~(Before(s, nth[w]) \subseteq file[s])
    <3>1. nth[w] > 1 /\ pc[w] = "put" /\ file'[s] = file[s] \cup SeedPuts(s)[nth[w]]
      <4>1. nth[w] \in Nat \ {0} /\ pc[w] = "put"
        BY <1>3, PutIsNext
      <4>2. nth[w] > 1
        BY <2>4, <4>1
      <4> QED
        BY <1>3, <2>4, <4>1, <4>2, PutIsNext
    <3>2. file[s] # {}
      BY <2>4, <3>1 DEF UsedAreFilled, Used, Writing
    <3>3. CASE Whole(s) \subseteq file[s]
      BY <3>1, <3>3
    <3>4. ASSUME NEW x \in Worker, Writing(x, s), nth[x] > 1, Before(s, nth[x]) \subseteq file[s]
          PROVE  Fills
      <4>1. x # w
        BY <2>4, <3>4
      <4>2. Writing(x, s)' /\ nth'[x] = nth[x]
        BY <2>1, <3>4, <4>1, OthersStay, OthersDo
      <4> QED
        BY <3>1, <3>4, <4>2
    <3> QED
      BY <1>2, <3>2, <3>3, <3>4
  <2> QED
    BY <2>2, <2>3, <2>4
<1>4. ASSUME NEW w \in Worker, Serve(w) PROVE file'[s] = {} \/ Fills
  <2>1. Acts(w) /\ pc[w] = "serve"
    BY <1>4 DEF Acts, Work, Serve
  <2>2. file' = file \/ (op[w] = "suppress" /\ file' = [file EXCEPT !["consent"] = @ \cup {Stop}])
    BY <1>4 DEF Serve
  <2>3. file[s] \subseteq file'[s]
    BY <2>2 DEF StoresTypeOK
  <2>4. \A x \in Worker : Writing(x, s) /\ nth[x] > 1 => Writing(x, s)' /\ nth'[x] = nth[x]
    BY <2>1, OthersStay, OthersDo DEF Writing
  <2>5. CASE file[s] = {} /\ file' = file
    BY <2>5
  <2>6. CASE file[s] = {} /\ file' # file
    <3>1. op[w] = "suppress" /\ file' = [file EXCEPT !["consent"] = @ \cup {Stop}]
      BY <2>2, <2>6
    <3>2. todo[w] = <<>> /\ op[w] \in Op
      BY <2>1 DEF StoresTypeOK
    <3>3. Has(w, "consent")
      BY <2>1, <3>1, <3>2, PortByPort DEF Has
    <3>4. file["consent"] # {} /\ "consent" \in Store
      BY <3>3 DEF UsedAreFilled, Used, Store
    <3> QED
      BY <2>6, <3>1, <3>4 DEF StoresTypeOK
  <2> QED
    BY <1>2, <2>3, <2>4, <2>5, <2>6, StillFilled
<1>5. ASSUME NEW w \in Worker, Acts(w), UNCHANGED file,
             pc[w] = "put" /\ nth[w] > 1 => Port(w) # s
      PROVE  file'[s] = {} \/ Fills
  <2>1. \A x \in Worker : Writing(x, s) /\ nth[x] > 1 => x # w
    BY <1>5 DEF Writing
  <2>2. \A x \in Worker : Writing(x, s) /\ nth[x] > 1 => Writing(x, s)' /\ nth'[x] = nth[x]
    BY <1>5, <2>1, OthersStay, OthersDo
  <2>3. file[s] = {} \/ Fills
    BY <1>2, <1>5, <2>2, StillFilled
  <2> QED
    BY <1>5, <2>3
<1>6. ASSUME NEW w \in Worker, Begin(w) \/ UseBound(w) \/ Construct(w) \/ Clear(w) \/ Publish(w)
      PROVE  file'[s] = {} \/ Fills
  <2>1. Acts(w) /\ UNCHANGED file /\ pc[w] # "put"
    BY <1>6 DEF Acts, Work, Begin, UseBound, Construct, Clear, Publish
  <2> QED
    BY <1>5, <2>1
<1>7. ASSUME NEW w \in Worker, Locked(w) PROVE file'[s] = {} \/ Fills
  <2>1. Acts(w) /\ UNCHANGED file
    BY <1>7 DEF Acts, Locked
  <2>2. pc[w] = "put" /\ nth[w] > 1 => Port(w) # s
    BY <1>7 DEF Locked
  <2> QED
    BY <1>5, <2>1, <2>2
<1>8. ASSUME NEW p \in Process, Die(p) PROVE file'[s] = {} \/ Fills
  <2>1. UNCHANGED file
    BY <1>8 DEF Die, DieWith
  <2>2. \A x \in Worker : Writing(x, s) /\ nth[x] > 1 => Home[x] # p
    BY <1>8 DEF Die, DieWith, Writing, Seeding
  <2>3. \A x \in Worker : Writing(x, s) /\ nth[x] > 1 => Writing(x, s)' /\ nth'[x] = nth[x]
    BY <1>8, <2>2, DeadStop, DeadDoNothing
  <2>4. file[s] = {} \/ Fills
    BY <1>2, <2>1, <2>3, StillFilled
  <2> QED
    BY <2>1, <2>4
<1>9. CASE UNCHANGED vars
  BY <1>2, <1>9 DEF vars, worker, Writing, Port
<1> QED
  BY <1>3, <1>4, <1>6, <1>7, <1>8, <1>9 DEF Next, Work

LEMMA RulesStep == StoresTypeOK /\ WritersOK /\ RulesExact /\ [Next]_vars => RulesExact'
<1> SUFFICES ASSUME StoresTypeOK, WritersOK, RulesExact, [Next]_vars
             PROVE  file'["rules"] = {} \/ file'["rules"] = RuleRows
  BY DEF RulesExact, RuleRows
<1>1. "rules" \in Store /\ "consent" \in Store
  BY DEF Store
<1>2. ASSUME NEW w \in Worker, Put(w) PROVE file'["rules"] = {} \/ file'["rules"] = RuleRows
  <2>1. CASE Port(w) # "rules"
    BY <1>1, <1>2, <2>1, PutIsNext DEF RulesExact
  <2>2. CASE Port(w) = "rules"
    <3>1. nth[w] \in DOMAIN SeedPuts("rules")
      BY <1>2, <2>2, PutIsNext
    <3>2. DOMAIN SeedPuts("rules") = 1..1 /\ Whole("rules") = RuleRows
      BY <1>1, SeedPutsAre
    <3>3. nth[w] = 1
      BY <3>1, <3>2
    <3>4. file'["rules"] = SeedPuts("rules")[1]
      BY <1>2, <2>2, <3>3, PutIsNext
    <3>5. Whole("rules") = SeedPuts("rules")[1]
      BY <3>2 DEF Whole
    <3> QED
      BY <3>2, <3>4, <3>5
  <2> QED
    BY <2>1, <2>2
<1>3. ASSUME NEW w \in Worker, Serve(w) PROVE file'["rules"] = file["rules"]
  <2>1. file' = file \/ file' = [file EXCEPT !["consent"] = @ \cup {Stop}]
    BY <1>3 DEF Serve
  <2> QED
    BY <1>1, <2>1 DEF StoresTypeOK
<1>4. CASE UNCHANGED file
  BY <1>4 DEF RulesExact
<1> QED
  BY <1>2, <1>3, <1>4
     DEF RulesExact, Next, Work, Begin, UseBound, Construct, Clear, Publish, Locked, Die, DieWith, vars

\* The parts the rules and the race properties rest on.
Filled == StoresTypeOK /\ WritersOK /\ UsedAreFilled /\ RulesExact /\ SeedersFill

LEMMA FilledInit == Init => Filled
<1> SUFFICES ASSUME Init PROVE RulesExact /\ SeedersFill
  BY TypeInit, WritersInit, UsedInit DEF Filled
<1> QED
  BY DEF Init, RulesExact, SeedersFill, Store

LEMMA FilledStep == Filled /\ [Next]_vars => Filled'
BY TypeStep, WritersStep, UsedStep, RulesStep, FillStep DEF Filled

\* Whoever serves has bound every port of its request.
LEMMA ServedIsUsed ==
    ASSUME StoresTypeOK, NEW w \in Worker, pc[w] = "serve"
    PROVE  /\ op[w] \in {"review", "decide"} => Used("rules")
           /\ op[w] \in {"decide", "suppress"} => Used("consent")
<1>1. todo[w] = <<>> /\ op[w] \in Op
  BY DEF StoresTypeOK
<1>2. \A s : s \in Reached(op[w], <<>>) => Used(s)
  BY <1>1 DEF Has, Used
<1> QED
  BY <1>1, <1>2, PortByPort

LEMMA WholePack == Filled => RulesAreWhole
<1> SUFFICES ASSUME Filled, Serving({"review", "decide"})
             PROVE  /\ Table("rules", "rules") = ALL_RULES
                    /\ \A m \in Markets, v \in Verticals : ConsentRules(RulesFor(m, v)) # {}
  BY DEF RulesAreWhole
<1>1. PICK w \in Worker : pc[w] = "serve" /\ op[w] \in {"review", "decide"}
  BY DEF Serving
<1>2. file["rules"] # {}
  BY <1>1, ServedIsUsed DEF Filled, UsedAreFilled, Store
<1>3. file["rules"] = RuleRows
  BY <1>2 DEF Filled, RulesExact
<1>4. Table("rules", "rules") = ALL_RULES
  <2>1. \A x \in RuleRows : x.table = "rules" /\ x.row \in ALL_RULES
    BY DEF RuleRows
  <2>2. ASSUME NEW r \in ALL_RULES
        PROVE  \E x \in RuleRows : x.table = "rules" /\ x.row = r
    <3> DEFINE x == [table |-> "rules", row |-> r]
    <3>1. x \in RuleRows
      BY DEF RuleRows
    <3>2. x.table = "rules" /\ x.row = r
      OBVIOUS
    <3> HIDE DEF x
    <3> QED
      BY <3>1, <3>2
  <2> HIDE DEF RuleRows
  <2>3. Table("rules", "rules") = {x.row : x \in {y \in RuleRows : y.table = "rules"}}
    BY <1>3 DEF Table
  <2>4. {x.row : x \in {y \in RuleRows : y.table = "rules"}} \subseteq ALL_RULES
    BY <2>1
  <2>5. ALL_RULES \subseteq {x.row : x \in {y \in RuleRows : y.table = "rules"}}
    BY <2>2
  <2> QED
    BY <2>3, <2>4, <2>5
<1>5. ASSUME NEW m \in Markets, NEW v \in Verticals
      PROVE  ConsentRules(RulesFor(m, v)) # {}
  <2> DEFINE r == Rule(m, v, "consent", "consent_required", Marketing)
  <2>1. r \in ALL_RULES
    BY EveryMarketAsks
  <2>2. r.market = m /\ r.vertical = v /\ r.kind = "consent" /\ r.check = "consent_required"
    BY DEF Rule
  <2> HIDE DEF r
  <2> QED
    BY <1>4, <2>1, <2>2 DEF RulesFor, ConsentRules
<1> QED
  BY <1>4, <1>5

\* No review and no decision is ever served from part of the rule pack, whatever
\* dies and whoever seeds it together.
THEOREM RulesAreWholeTheorem == Spec => []RulesAreWhole
BY FilledInit, FilledStep, WholePack, PTL DEF Spec

LEMMA WholeAfterRaces == Filled => RacesEndWhole
<1> SUFFICES ASSUME Filled, NEW s \in raced \ torn, Seeding(s) = {}, file[s] # {}
             PROVE  Whole(s) \subseteq file[s]
  BY DEF RacesEndWhole
<1>1. s \in Store
  BY DEF Filled, StoresTypeOK
<1>2. \A w \in Worker : ~Writing(w, s)
  BY DEF Seeding, Writing
<1> QED
  BY <1>1, <1>2 DEF Filled, SeedersFill

\* Adapters that race to seed a file leave it whole, unless one of them was cut
\* off; this holds of every file, raced over or not.
THEOREM RacesEndWholeTheorem == Spec => []RacesEndWhole
BY FilledInit, FilledStep, WholeAfterRaces, PTL DEF Spec

-----------------------------------------------------------------------------
(* The consent store that nobody raced for and no crash cut off.           *)

\* Nothing is in it, and one worker at most is about to put the first row.
Fresh ==
    /\ file["consent"] = {} /\ ~stopped
    /\ \A w \in Worker : Seeds(w, "consent") =>
          /\ nth[w] < 2
          /\ \A x \in Worker : Seeds(x, "consent") => x = w

\* One worker is putting it, and nobody has it.
Filling ==
    /\ ~stopped
    /\ \E w \in Worker :
          /\ Writing(w, "consent") /\ nth[w] > 1
          /\ file["consent"] = Before("consent", nth[w])
          /\ \A x \in Worker : Seeds(x, "consent") => x = w
    /\ \A p \in Process : "consent" \notin bound[p]
    /\ \A x \in Worker : ~Has(x, "consent")

\* All of it is in.
Settled ==
    /\ \A w \in Worker : ~Seeds(w, "consent")
    /\ file["consent"] = Whole("consent") \cup (IF stopped THEN {Stop} ELSE {})

Quiet == "consent" \in raced \cup torn \/ Fresh \/ Filling \/ Settled

LEMMA QuietInit == Init => Quiet
BY DEF Init, Quiet, Fresh, Seeds, Store

LEMMA ConsentIsAStore ==
    /\ "consent" \in Store /\ Len(SeedPuts("consent")) = 18
    /\ DOMAIN SeedPuts("consent") = 1..18
    /\ \E r \in Whole("consent") : r.table = "records"
<1>1. "consent" \in Store
  BY DEF Store
<1>2. /\ DOMAIN SeedPuts("consent") = 1..Len(SeedPuts("consent"))
      /\ Len(SeedPuts("consent")) \in Nat \ {0} /\ SeedPuts("consent")[1] # {}
      /\ \E r \in SeedPuts("consent")[1] : r.table = "records"
  BY <1>1, SeedPutsAre
<1>3. SeedPuts("consent") = [i \in DOMAIN ConsentPuts |-> {ConsentPuts[i]}]
  BY <1>1 DEF SeedPuts, SeedTable, SeedPutsOf, ConsentPuts
<1>4. DOMAIN SeedPuts("consent") = 1..18
  BY <1>3, ConsentPutsAre
<1>5. Len(SeedPuts("consent")) = 18
  BY <1>2, <1>4
<1>6. 1 \in DOMAIN SeedPuts("consent")
  BY <1>4
<1> QED
  BY <1>1, <1>2, <1>4, <1>5, <1>6 DEF Whole

\* A step that is not at the consent store leaves it as it is.
LEMMA ElsewhereQuiet ==
    ASSUME StoresTypeOK, Quiet, NEW w \in Worker, Acts(w),
           "consent" \notin raced', "consent" \notin torn', raced \subseteq raced', torn \subseteq torn',
           file'["consent"] = file["consent"], UNCHANGED stopped,
           Seeds(w, "consent")' <=> Seeds(w, "consent"),
           Writing(w, "consent") => Writing(w, "consent")' /\ nth'[w] = nth[w],
           Seeds(w, "consent")' /\ ~Writing(w, "consent") => nth'[w] < 2,
           Filling => (Has(w, "consent")' => Has(w, "consent")),
           Filling => \A p \in Process : "consent" \notin bound'[p]
    PROVE  Quiet'
<1>1. \A x \in Worker : x # w => /\ pc'[x] = pc[x] /\ nth'[x] = nth[x]
                                 /\ Seeds(x, "consent")' <=> Seeds(x, "consent")
                                 /\ Writing(x, "consent")' <=> Writing(x, "consent")
                                 /\ Has(x, "consent")' <=> Has(x, "consent")
  BY OthersStay, OthersDo
<1>2. \A x \in Worker : Seeds(x, "consent")' <=> Seeds(x, "consent")
  BY <1>1
<1>3. CASE Fresh
  <2>1. \A x \in Worker : Seeds(x, "consent")' => nth'[x] < 2
    <3> SUFFICES ASSUME NEW x \in Worker, Seeds(x, "consent")' PROVE nth'[x] < 2
      OBVIOUS
    <3>1. nth[x] < 2
      BY <1>2, <1>3 DEF Fresh
    <3> QED
      BY <1>1, <3>1
  <2>2. Fresh'
    BY <1>2, <1>3, <2>1 DEF Fresh
  <2> QED
    BY <2>2 DEF Quiet
<1>4. CASE Filling
  <2>1. PICK x \in Worker : /\ Writing(x, "consent") /\ nth[x] > 1
                            /\ file["consent"] = Before("consent", nth[x])
                            /\ \A y \in Worker : Seeds(y, "consent") => y = x
    BY <1>4 DEF Filling
  <2>2. Writing(x, "consent")' /\ nth'[x] = nth[x]
    BY <1>1, <2>1
  <2>3. \A y \in Worker : ~Has(y, "consent")'
    BY <1>1, <1>4 DEF Filling
  <2>4. /\ Writing(x, "consent")' /\ nth'[x] > 1
        /\ file'["consent"] = Before("consent", nth'[x])
        /\ \A y \in Worker : Seeds(y, "consent")' => y = x
    BY <1>2, <2>1, <2>2
  <2>5. Filling'
    BY <1>4, <2>3, <2>4 DEF Filling, Before
  <2> QED
    BY <2>5 DEF Quiet
<1>5. CASE Settled
  <2>1. Settled'
    BY <1>2, <1>5 DEF Settled, Whole, Stop
  <2> QED
    BY <2>1 DEF Quiet
<1> QED
  BY <1>3, <1>4, <1>5 DEF Quiet

LEMMA NobodyHasMore ==
    ASSUME StoresTypeOK, WritersOK, Filling, NEW w \in Worker, Acts(w), Has(w, "consent")'
    PROVE  \/ Has(w, "consent")
           \/ (Construct(w) \/ Put(w)) /\ Port(w) = "consent"
<1>1. "consent" \notin bound[Home[w]] /\ "consent" \in Store
  BY HomeAssumption, ConsentIsAStore DEF Filling
<1> QED
  BY <1>1, HasMore

LEMMA QuietStep ==
    StoresTypeOK /\ WritersOK /\ UsedAreFilled /\ Quiet /\ [Next]_vars => Quiet'
<1> SUFFICES ASSUME StoresTypeOK, WritersOK, UsedAreFilled, Quiet, [Next]_vars,
                    "consent" \notin raced', "consent" \notin torn'
             PROVE  Quiet'
  BY DEF Quiet
<1>1. raced \subseteq raced' /\ torn \subseteq torn'
  BY DEF Next, Work, Begin, UseBound, Construct, Clear, Put, Publish, Serve, Locked, Finish, Die, DieWith,
         vars
<1>2. ASSUME NEW w \in Worker, Begin(w) PROVE Quiet'
  <2>1. /\ Acts(w) /\ pc[w] = "idle" /\ pc'[w] = "bind"
        /\ UNCHANGED <<file, stopped, bound>> /\ ~Construct(w) /\ ~Put(w)
    BY <1>2, Moved DEF Acts, Begin, Construct, Put
  <2>2. ~Seeds(w, "consent") /\ ~Seeds(w, "consent")' /\ ~Writing(w, "consent")
    BY <2>1 DEF Seeds, Writing
  <2>3. Filling => (Has(w, "consent")' => Has(w, "consent"))
    BY <2>1, NobodyHasMore
  <2>4. Filling => \A p \in Process : "consent" \notin bound'[p]
    BY <2>1 DEF Filling
  <2> QED
    BY <1>1, <2>1, <2>2, <2>3, <2>4, ElsewhereQuiet
<1>3. ASSUME NEW w \in Worker, UseBound(w) \/ Publish(w) PROVE Quiet'
  <2>1. /\ Acts(w) /\ pc[w] \in {"bind", "publish"} /\ pc'[w] \in {"serve", "bind"}
        /\ UNCHANGED <<file, stopped>> /\ ~Construct(w) /\ ~Put(w)
    <3>1. Acts(w) /\ NextPort(w) /\ pc[w] \in {"bind", "publish"} /\ UNCHANGED <<file, stopped>>
      BY <1>3 DEF Acts, Work, UseBound, Publish
    <3>2. pc'[w] \in {"serve", "bind"}
      BY <3>1, Moved DEF NextPort
    <3>3. ~Put(w)
      BY <3>1 DEF Put
    <3>4. ~Construct(w)
      BY <1>3 DEF UseBound, Publish, Construct
    <3> QED
      BY <3>1, <3>2, <3>3, <3>4
  <2>2. ~Seeds(w, "consent") /\ ~Seeds(w, "consent")' /\ ~Writing(w, "consent")
    BY <2>1 DEF Seeds, Writing
  <2>3. Filling => (Has(w, "consent")' => Has(w, "consent"))
    BY <2>1, NobodyHasMore
  <2>4. ASSUME Filling, NEW p \in Process PROVE "consent" \notin bound'[p]
    <3>1. CASE UseBound(w)
      BY <2>4, <3>1 DEF UseBound, Filling
    <3>2. CASE Publish(w)
      <4>1. Port(w) # "consent"
        BY <2>4, <3>2 DEF Publish, Filling, Has
      <4> QED
        BY <2>4, <3>2, <4>1 DEF Publish, Filling, StoresTypeOK
    <3> QED
      BY <1>3, <3>1, <3>2
  <2> QED
    BY <1>1, <2>1, <2>2, <2>3, <2>4, ElsewhereQuiet
<1>4. ASSUME NEW w \in Worker, Construct(w) PROVE Quiet'
  <2>1. /\ Acts(w) /\ pc[w] = "bind" /\ nth'[w] = 0 /\ UNCHANGED <<file, stopped, bound, todo>> /\ ~Put(w)
        /\ pc'[w] = IF IsEmpty(Port(w)) THEN "clear" ELSE "publish"
    <3>1. /\ Acts(w) /\ pc[w] = "bind" /\ UNCHANGED <<file, stopped, bound, todo>>
          /\ Move(w, IF IsEmpty(Port(w)) THEN "clear" ELSE "publish", 0)
      BY <1>4 DEF Acts, Work, Construct
    <3>2. ~Put(w)
      BY <3>1 DEF Put
    <3> QED
      BY <3>1, <3>2, Moved
  <2>2. ~Seeds(w, "consent") /\ ~Writing(w, "consent")
    BY <2>1 DEF Seeds, Writing
  <2>3. Port(w) = "consent" => \A x \in Worker : ~Seeds(x, "consent")
    BY <1>4 DEF Construct, Seeding, Seeds
  <2>4. CASE Port(w) # "consent" \/ ~IsEmpty(Port(w))
    <3>1. ~Seeds(w, "consent")'
      BY <2>1, <2>4 DEF Seeds, Port
    <3>2. ASSUME Filling, Has(w, "consent")' PROVE Has(w, "consent")
      <4>1. Port(w) # "consent"
        BY <2>3, <3>2 DEF Filling, Writing, Seeds
      <4> QED
        BY <2>1, <3>2, <4>1, NobodyHasMore
    <3>3. Filling => \A p \in Process : "consent" \notin bound'[p]
      BY <2>1 DEF Filling
    <3> QED
      BY <1>1, <2>1, <2>2, <3>1, <3>2, <3>3, ElsewhereQuiet
  <2>5. CASE Port(w) = "consent" /\ IsEmpty(Port(w))
    <3>1. ~Filling
      BY <2>3, <2>5 DEF Filling, Writing, Seeds
    <3>2. ~Settled
      <4>1. PICK r \in Whole("consent") : r.table = "records"
        BY ConsentIsAStore
      <4> QED
        BY <2>5, <4>1 DEF Settled, IsEmpty
    <3>3. Fresh
      BY <1>1, <3>1, <3>2 DEF Quiet
    <3>4. \A x \in Worker : Seeds(x, "consent")' => x = w
      BY <2>1, <2>3, <2>5, OthersDo
    <3>5. Fresh'
      BY <2>1, <3>3, <3>4 DEF Fresh
    <3> QED
      BY <3>5 DEF Quiet
  <2> QED
    BY <2>4, <2>5
<1>5. ASSUME NEW w \in Worker, Clear(w) PROVE Quiet'
  <2>1. /\ Acts(w) /\ pc[w] = "clear" /\ pc'[w] = "put" /\ nth'[w] = 1
        /\ UNCHANGED <<file, stopped, bound, todo>> /\ ~Construct(w) /\ ~Put(w)
    <3>1. Acts(w) /\ pc[w] = "clear" /\ UNCHANGED <<file, stopped, bound, todo>> /\ Move(w, "put", 1)
      BY <1>5 DEF Acts, Work, Clear
    <3> QED
      BY <3>1, Moved DEF Construct, Put
  <2>2. Seeds(w, "consent")' <=> Seeds(w, "consent")
    BY <2>1 DEF Seeds, Port
  <2>3. ~Writing(w, "consent")
    BY <2>1 DEF Writing
  <2>4. Filling => (Has(w, "consent")' => Has(w, "consent"))
    BY <2>1, NobodyHasMore
  <2>5. Filling => \A p \in Process : "consent" \notin bound'[p]
    BY <2>1 DEF Filling
  <2> QED
    BY <1>1, <2>1, <2>2, <2>3, <2>4, <2>5, ElsewhereQuiet
<1>6. ASSUME NEW w \in Worker, Put(w) PROVE Quiet'
  <2>1. /\ Acts(w) /\ pc[w] = "put" /\ UNCHANGED <<todo, stopped, bound>> /\ ~Construct(w)
        /\ pc'[w] \in {"put", "publish"}
    <3>1. Acts(w) /\ pc[w] = "put" /\ UNCHANGED <<todo, stopped, bound>> /\ ~Construct(w)
      BY <1>6 DEF Acts, Work, Put, Construct
    <3>2. pc'[w] \in {"put", "publish"}
      BY <1>6, PutIsNext
    <3> QED
      BY <3>1, <3>2
  <2>2. CASE Port(w) # "consent"
    <3>1. file'["consent"] = file["consent"]
      BY <1>6, <2>2, PutIsNext, ConsentIsAStore
    <3>2. ~Seeds(w, "consent") /\ ~Seeds(w, "consent")' /\ ~Writing(w, "consent")
      BY <2>1, <2>2 DEF Seeds, Writing, Port
    <3>3. Filling => (Has(w, "consent")' => Has(w, "consent"))
      BY <2>1, <2>2, NobodyHasMore
    <3>4. Filling => \A p \in Process : "consent" \notin bound'[p]
      BY <2>1 DEF Filling
    <3> QED
      BY <1>1, <2>1, <3>1, <3>2, <3>3, <3>4, ElsewhereQuiet
  <2>3. CASE Port(w) = "consent"
    <3>1. Seeds(w, "consent") /\ Writing(w, "consent")
      BY <2>1, <2>3 DEF Seeds, Writing
    <3>2. ~Settled
      BY <3>1 DEF Settled
    <3>3. Fresh \/ Filling
      BY <1>1, <3>2 DEF Quiet
    <3>4. \A x \in Worker : Seeds(x, "consent") => x = w
      BY <3>1, <3>3 DEF Fresh, Filling
    <3>5. ~stopped
      BY <3>3 DEF Fresh, Filling
    <3>6. /\ nth[w] \in Nat \ {0} /\ nth[w] \in DOMAIN SeedPuts("consent")
          /\ nth[w] = 1 => file'["consent"] = SeedPuts("consent")[1]
          /\ nth[w] > 1 => file'["consent"] = file["consent"] \cup SeedPuts("consent")[nth[w]]
          /\ nth[w] = 18 => pc'[w] = "publish"
          /\ nth[w] # 18 => pc'[w] = "put" /\ nth'[w] = nth[w] + 1
      <4>1. Len(SeedPuts("consent")) = 18
        BY ConsentIsAStore
      <4> QED
        BY <1>6, <2>3, <4>1, PutIsNext
    <3>7. Before("consent", nth[w] + 1) = Before("consent", nth[w]) \cup SeedPuts("consent")[nth[w]]
          /\ Before("consent", 1) = {}
      BY <3>6, ConsentIsAStore, PutByPut
    <3>8. file'["consent"] = Before("consent", nth[w] + 1)
      <4>1. CASE nth[w] = 1
        BY <3>6, <3>7, <4>1
      <4>2. CASE nth[w] > 1
        <5>1. Filling
          BY <3>1, <3>3, <3>6, <4>2 DEF Fresh
        <5>2. file["consent"] = Before("consent", nth[w])
          BY <3>4, <5>1 DEF Filling, Writing, Seeds
        <5> QED
          BY <3>6, <3>7, <4>2, <5>2
      <4> QED
        BY <3>6, <4>1, <4>2
    <3>9. \A x \in Worker : x # w => ~Seeds(x, "consent")'
      BY <2>1, <3>4, OthersDo
    <3>10. CASE nth[w] = 18
      <4>1. ~Seeds(w, "consent")'
        BY <3>6, <3>10 DEF Seeds
      <4>2. Before("consent", nth[w] + 1) = Whole("consent")
        BY <3>6, <3>10, ConsentIsAStore, PutByPut
      <4>3. \A x \in Worker : ~Seeds(x, "consent")'
        BY <3>9, <4>1
      <4>4. file'["consent"] = Whole("consent") /\ ~stopped'
        BY <2>1, <3>5, <3>8, <4>2
      <4>5. Settled'
        BY <4>3, <4>4 DEF Settled, Whole
      <4> QED
        BY <4>5 DEF Quiet
    <3>11. CASE nth[w] # 18
      <4>1. Writing(w, "consent")' /\ nth'[w] = nth[w] + 1 /\ nth'[w] > 1
        BY <2>1, <2>3, <3>6, <3>11 DEF Writing, Port
      <4>2. /\ \A p \in Process : "consent" \notin bound[p]
            /\ \A x \in Worker : ~Has(x, "consent")
        <5>1. CASE Fresh
          BY <5>1, ConsentIsAStore DEF Fresh, UsedAreFilled, Used
        <5>2. CASE Filling
          BY <5>2 DEF Filling
        <5> QED
          BY <3>3, <5>1, <5>2
      <4>3. \A p \in Process : "consent" \notin bound'[p]
        BY <2>1, <4>2
      <4>4. ~Has(w, "consent")'
        <5> SUFFICES ASSUME Has(w, "consent")' PROVE FALSE
          OBVIOUS
        <5>1. ~Has(w, "consent") /\ UNCHANGED op
          BY <1>6, <4>2, PutIsNext
        <5> QED
          BY <2>1, <3>6, <3>11, <5>1 DEF Has, Reached
      <4>5. \A x \in Worker : ~Has(x, "consent")'
        BY <2>1, <4>2, <4>4, OthersDo
      <4>6. file'["consent"] = Before("consent", nth'[w]) /\ ~stopped'
        BY <2>1, <3>5, <3>8, <4>1
      <4>7. Filling'
        BY <3>9, <4>1, <4>3, <4>5, <4>6 DEF Filling, Before
      <4> QED
        BY <4>7 DEF Quiet
    <3> QED
      BY <3>10, <3>11
  <2> QED
    BY <2>2, <2>3
<1>7. ASSUME NEW w \in Worker, Serve(w) PROVE Quiet'
  <2>1. Acts(w) /\ pc[w] = "serve" /\ UNCHANGED bound /\ pc'[w] = "idle"
    BY <1>7, Moved DEF Acts, Work, Serve, Finish
  <2>2. ~Seeds(w, "consent") /\ ~Seeds(w, "consent")' /\ ~Writing(w, "consent") /\ ~Has(w, "consent")'
    BY <2>1 DEF Seeds, Writing, Has
  <2>3. CASE op[w] # "suppress"
    <3>1. UNCHANGED <<file, stopped>>
      BY <1>7, <2>3 DEF Serve
    <3>2. Filling => \A p \in Process : "consent" \notin bound'[p]
      BY <2>1 DEF Filling
    <3> QED
      BY <1>1, <2>1, <2>2, <3>1, <3>2, ElsewhereQuiet
  <2>4. CASE op[w] = "suppress"
    <3>1. Has(w, "consent")
      <4>1. todo[w] = <<>> /\ op[w] \in Op
        BY <2>1 DEF StoresTypeOK
      <4> QED
        BY <2>1, <2>4, <4>1, PortByPort DEF Has
    <3>2. ~Filling
      BY <3>1 DEF Filling
    <3>3. ~Fresh
      BY <3>1, ConsentIsAStore DEF Fresh, UsedAreFilled, Used
    <3>4. Settled
      BY <1>1, <3>2, <3>3 DEF Quiet
    <3>5. \A x \in Worker : ~Seeds(x, "consent")'
      BY <2>1, <2>2, <3>4, OthersDo DEF Settled
    <3>6. file'["consent"] = file["consent"] \cup {Stop} /\ stopped'
      BY <1>7, <2>4, ConsentIsAStore DEF Serve, StoresTypeOK
    <3>7. file'["consent"] = Whole("consent") \cup {Stop}
      BY <3>4, <3>6 DEF Settled
    <3>8. Settled'
      BY <3>5, <3>6, <3>7 DEF Settled, Whole, Stop
    <3> QED
      BY <3>8 DEF Quiet
  <2> QED
    BY <2>3, <2>4
<1>8. ASSUME NEW w \in Worker, Locked(w) PROVE Quiet'
  <2>1. Acts(w) /\ UNCHANGED <<file, stopped, bound>> /\ pc'[w] = "idle"
    BY <1>8, Moved DEF Acts, Locked, Finish
  <2>2. ~Seeds(w, "consent")' /\ ~Has(w, "consent")'
    BY <2>1 DEF Seeds, Has
  <2>3. \A x \in Worker : Seeds(x, "consent")' => Seeds(x, "consent") /\ x # w
    BY <2>1, <2>2, OthersDo
  <2>4. CASE Seeds(w, "consent")
    <3>1. ~(Writing(w, "consent") /\ nth[w] > 1)
      BY <1>8 DEF Locked, Writing
    <3>2. ~Filling
      BY <2>4, <3>1 DEF Filling
    <3>3. ~Settled
      BY <2>4 DEF Settled
    <3>4. Fresh
      BY <1>1, <3>2, <3>3 DEF Quiet
    <3>5. Fresh'
      BY <2>1, <2>3, <2>4, <3>4 DEF Fresh
    <3> QED
      BY <3>5 DEF Quiet
  <2>5. CASE ~Seeds(w, "consent")
    <3>1. ~Writing(w, "consent")
      BY <2>5 DEF Seeds, Writing
    <3>2. Filling => \A p \in Process : "consent" \notin bound'[p]
      BY <2>1 DEF Filling
    <3> QED
      BY <1>1, <2>1, <2>2, <2>5, <3>1, <3>2, ElsewhereQuiet
  <2> QED
    BY <2>4, <2>5
<1>9. ASSUME NEW p \in Process, Die(p) PROVE Quiet'
  <2>1. UNCHANGED <<file, stopped>> /\ \A q \in Process : bound'[q] \subseteq bound[q]
    BY <1>9 DEF Die, DieWith, StoresTypeOK
  <2>2. \A x \in Worker : Seeds(x, "consent")' => Seeds(x, "consent") /\ nth'[x] = nth[x]
    BY <1>9, DeadDoNothing, DeadStop
  <2>3. CASE Fresh
    <3>1. Fresh'
      BY <2>1, <2>2, <2>3 DEF Fresh
    <3> QED
      BY <3>1 DEF Quiet
  <2>4. CASE Filling
    <3>1. PICK x \in Worker : /\ Writing(x, "consent") /\ nth[x] > 1
                              /\ file["consent"] = Before("consent", nth[x])
                              /\ \A y \in Worker : Seeds(y, "consent") => y = x
      BY <2>4 DEF Filling
    <3>2. Home[x] # p
      BY <1>9, <3>1, ConsentIsAStore DEF Die, DieWith, Writing, Seeding
    <3>3. Writing(x, "consent")' /\ nth'[x] = nth[x]
      BY <1>9, <3>1, <3>2, DeadDoNothing, DeadStop
    <3>4. \A y \in Worker : ~Has(y, "consent")'
      BY <1>9, <2>4, DeadDoNothing DEF Filling
    <3>5. \A q \in Process : "consent" \notin bound'[q]
      BY <2>1, <2>4 DEF Filling
    <3>6. /\ Writing(x, "consent")' /\ nth'[x] > 1
          /\ file'["consent"] = Before("consent", nth'[x])
          /\ \A y \in Worker : Seeds(y, "consent")' => y = x
      BY <2>1, <2>2, <3>1, <3>3
    <3>7. ~stopped'
      BY <2>1, <2>4 DEF Filling
    <3>8. Filling'
      BY <3>4, <3>5, <3>6, <3>7 DEF Filling, Before
    <3> QED
      BY <3>8 DEF Quiet
  <2>5. CASE Settled
    <3>1. Settled'
      BY <2>1, <2>2, <2>5 DEF Settled, Whole, Stop
    <3> QED
      BY <3>1 DEF Quiet
  <2> QED
    BY <1>1, <2>3, <2>4, <2>5 DEF Quiet
<1>10. CASE UNCHANGED vars
  BY <1>10 DEF vars, worker, Quiet, Fresh, Filling, Settled, Seeds, Writing, Has, Port, Reached,
               Before, Whole, Stop
<1> QED
  BY <1>2, <1>3, <1>4, <1>5, <1>6, <1>7, <1>8, <1>9, <1>10 DEF Next, Work

-----------------------------------------------------------------------------
(* Whom a decision lets be contacted.                                      *)

\* The rows of a file, table by table.
LEMMA TableIs == ASSUME NEW s, NEW t, NEW v
                 PROVE  v \in Table(s, t) <=> \E x \in file[s] : x.table = t /\ x.row = v
BY DEF Table

\* A row of the seed is in the table it was put in, and Stop is no row of it.
LEMMA RowsOfTheSeed ==
    ASSUME NEW t \in ConsentTable, NEW v
    PROVE  /\ (\E x \in ConsentRows : x.table = t /\ x.row = v) <=> v \in Seeded(t)
           /\ Stop.table = t /\ Stop.row = v <=> t = "suppressions" /\ v = DoNotContact(2, 101, Now)
<1>1. Stop.table = "suppressions" /\ Stop.row = DoNotContact(2, 101, Now)
  BY DEF Stop
<1> QED
  BY <1>1, RowsAreSeeded

\* Nothing but the seed and one suppression is ever on file.
LEMMA TablesWithin ==
    ASSUME StoresTypeOK, NEW t \in ConsentTable
    PROVE  Table("consent", t)
             \subseteq Seeded(t) \cup (IF t = "suppressions" THEN {DoNotContact(2, 101, Now)} ELSE {})
<1>1. file["consent"] \subseteq ConsentRows \cup {Stop}
  BY ConsentIsAStore, SeedPutsAre DEF StoresTypeOK
<1> QED
  BY <1>1, TableIs, RowsOfTheSeed

\* When the seed is in, the tables are the seed's, and the suppression there is.
LEMMA TablesSettled ==
    ASSUME StoresTypeOK, Settled, NEW t \in ConsentTable
    PROVE  Table("consent", t)
             = Seeded(t) \cup (IF t = "suppressions" /\ stopped THEN {DoNotContact(2, 101, Now)} ELSE {})
<1>1. file["consent"] = ConsentRows \cup (IF stopped THEN {Stop} ELSE {})
  BY ConsentIsAStore, SeedPutsAre DEF Settled
<1>2. ASSUME NEW v
      PROVE  v \in Table("consent", t)
               <=> v \in Seeded(t) \/ (t = "suppressions" /\ stopped /\ v = DoNotContact(2, 101, Now))
  BY <1>1, TableIs, RowsOfTheSeed
<1> QED
  BY <1>2

\* The market's consent rules, if any, ask for consent to marketing.
LEMMA MarketingIsAsked ==
    ASSUME Filled, NEW m, NEW v, NEW c \in ConsentRules(RulesFor(m, v))
    PROVE  c.purpose = Marketing
<1>1. c \in Table("rules", "rules") /\ c.kind = "consent"
  BY DEF ConsentRules, RulesFor
<1>2. PICK x \in file["rules"] : x.row = c
  BY <1>1, TableIs
<1>3. c \in ALL_RULES
  BY <1>2 DEF Filled, RulesExact, RuleRows
<1> DEFINE others(n, w) == {Rule(n, w, IF k = "required_field" THEN "permission" ELSE "claim", k, Blank) :
                                k \in OtherChecks(n, w)}
<1>4. PICK n \in Markets, w \in Verticals :
          c \in {Rule(n, w, "consent", "consent_required", Marketing)} \cup others(n, w)
  BY <1>3 DEF ALL_RULES
<1>5. \A r \in others(n, w) : r.kind # "consent"
  BY DEF Rule
<1>6. Rule(n, w, "consent", "consent_required", Marketing).purpose = Marketing
  BY DEF Rule
<1> HIDE DEF others
<1> QED
  BY <1>1, <1>4, <1>5, <1>6

\* The snapshot and the question of Contactable.
RowsAbout(s, t) == {r \in Table("consent", t) : r.tenant = TenantOf(s) /\ r.subject = s}

SnapOf(s) ==
    [tenant |-> TenantOf(s), subject |-> s, records |-> RowsAbout(s, "records"),
     preferences |-> RowsAbout(s, "preferences"), suppressions |-> RowsAbout(s, "suppressions"),
     caps |-> {c \in Table("consent", "caps") : c.tenant = TenantOf(s)}]

QuestionOf(s) ==
    [tenant |-> TenantOf(s), subject |-> s, purpose |-> Marketing, channel |-> "email"]

LEMMA ContactableIs ==
    ASSUME NEW s \in DemoSubject
    PROVE  /\ Contactable(s) <=> Allowed(QuestionOf(s), SnapOf(s), Now, RulesFor("SG", "banking"), 0)
           /\ AnswerableReasons(QuestionOf(s), SnapOf(s)) = {}
<1>1. Contactable(s) <=> Allowed(QuestionOf(s), SnapOf(s), Now, RulesFor("SG", "banking"), 0)
  BY DEF Contactable, QuestionOf, SnapOf, RowsAbout
<1>2. /\ QuestionOf(s).tenant = TenantOf(s) /\ QuestionOf(s).subject = s
      /\ QuestionOf(s).purpose = Marketing
      /\ SnapOf(s).tenant = TenantOf(s) /\ SnapOf(s).subject = s
  BY DEF QuestionOf, SnapOf
<1>3. TenantOf(s) # Blank /\ s # Blank /\ Marketing # Blank
  <2>1. s \in Nat
    BY DEF DemoSubject, DemoSubjects, OtherSubjects
  <2> QED
    BY <2>1, NothingAssumption DEF TenantOf
<1>4. AnswerableReasons(QuestionOf(s), SnapOf(s)) = {}
  BY <1>2, <1>3 DEF AnswerableReasons, Unresolved
<1> QED
  BY <1>1, <1>4

\* Whatever has been cut off or raced for, a subject that may be contacted has a
\* grant of the seed in force and an opt-in of the seed.
LEMMA ContactsWithin ==
    ASSUME Filled
    PROVE  ContactableSubjects \subseteq {101, 104, 201}
<1> SUFFICES ASSUME NEW s \in DemoSubject, Contactable(s) PROVE s \in {101, 104, 201}
  BY DEF ContactableSubjects, DemoSubject
<1> DEFINE q == QuestionOf(s)
           snap == SnapOf(s)
<1>1. Allowed(q, snap, Now, RulesFor("SG", "banking"), 0)
  BY ContactableIs
<1>2. /\ snap.records = RowsAbout(s, "records") /\ snap.preferences = RowsAbout(s, "preferences")
      /\ q.channel = "email"
  BY DEF SnapOf, QuestionOf
<1>3. RowsAbout(s, "records") \subseteq Seeded("records")
  BY TablesWithin DEF RowsAbout, Filled, ConsentTable
<1>4. RowsAbout(s, "preferences") \subseteq Seeded("preferences")
  BY TablesWithin DEF RowsAbout, Filled, ConsentTable
<1>5. Ordered(snap.records)
  BY <1>2, <1>3, SeededStatements, NowAssumption DEF Ordered
<1> HIDE DEF q, snap
<1>6. /\ \E r \in snap.records : GrantReason(r, Now) = "consent_granted"
      /\ \E p \in snap.preferences : p.channel = q.channel
  BY <1>1, <1>5, AllowedTakesBoth
<1>7. s \in {101, 104, 105, 201}
  BY <1>2, <1>3, <1>6, SeededStatements, NowAssumption DEF RowsAbout
<1>8. s # 105
  BY <1>2, <1>4, <1>6, SeededPreferences DEF RowsAbout
<1> QED
  BY <1>7, <1>8

\* Once the seed is in, the decisions are the documented ones.
LEMMA ContactsSettled ==
    ASSUME Filled, Settled
    PROVE  ContactableSubjects = {101, 201} \ (IF stopped THEN {101} ELSE {})
<1>1. ASSUME NEW s \in DemoSubject
      PROVE  Contactable(s) <=> s \in {101, 201} /\ ~(s = 101 /\ stopped)
  <2> DEFINE q == QuestionOf(s)
             snap == SnapOf(s)
             rules == RulesFor("SG", "banking")
  <2>1. /\ q.purpose = Marketing /\ q.channel = "email"
        /\ snap.records = RowsAbout(s, "records") /\ snap.preferences = RowsAbout(s, "preferences")
        /\ snap.suppressions = RowsAbout(s, "suppressions")
        /\ snap.caps \subseteq Table("consent", "caps")
    BY DEF QuestionOf, SnapOf
  <2>2. Contactable(s) <=> Allowed(q, snap, Now, rules, 0)
    BY ContactableIs
  <2>3. AnswerableReasons(q, snap) = {}
    BY ContactableIs
  <2>4. /\ Table("consent", "records") = Seeded("records")
        /\ Table("consent", "preferences") = Seeded("preferences")
        /\ Table("consent", "caps") = Seeded("caps")
        /\ Table("consent", "suppressions")
             = Seeded("suppressions") \cup (IF stopped THEN {DoNotContact(2, 101, Now)} ELSE {})
    BY TablesSettled DEF Filled, ConsentTable
  <2>5. PICK r \in Seeded("records") : r.subject = s
    BY SeededStatements, NowAssumption
  <2>6. /\ RowsAbout(s, "records") = {r} /\ r.purpose = Marketing /\ r.at \in Nat /\ r.id \in Nat
        /\ GrantReason(r, Now) = "consent_granted" <=> s \in {101, 104, 105, 201}
    BY <2>4, <2>5, SeededStatements, NowAssumption DEF RowsAbout
  <2>7. /\ \A p \in RowsAbout(s, "preferences") : p.channel = "email" => p.opted_in
        /\ \A p, x \in RowsAbout(s, "preferences") : p.channel = "email" /\ x.channel = "email" => p = x
        /\ (\E p \in RowsAbout(s, "preferences") : p.channel = "email") <=> s # 105
    BY <2>4, SeededPreferences DEF RowsAbout
  <2>8. \A c \in snap.caps : ~(0 >= c.max)
    BY <2>1, <2>4, SeededLimits
  <2>9. \A c \in ConsentRules(rules) : Match(q.purpose, c.purpose)
    BY <2>1, MarketingIsAsked DEF Match
  <2>10. (\E e \in RowsAbout(s, "suppressions") : Applies(e, q, Now)) <=> s = 104 \/ (s = 101 /\ stopped)
    <3> DEFINE e1 == DoNotContact(1, 104, At(2026, 5, 4))
               e2 == DoNotContact(2, 101, Now)
    <3>1. /\ e1.subject = 104 /\ e1.tenant = TenantOf(104) /\ e1.scope = "all"
          /\ e1.from = At(2026, 5, 4) /\ e1.until = None
          /\ e2.subject = 101 /\ e2.tenant = TenantOf(101) /\ e2.scope = "all"
          /\ e2.from = Now /\ e2.until = None
      BY DEF DoNotContact
    <3>2. At(2026, 5, 4) <= Now /\ Now <= Now
      BY NowAssumption, SMT DEF At, Documented
    <3>3. Table("consent", "suppressions") = {e1} \cup (IF stopped THEN {e2} ELSE {})
      BY <2>4, SeededLimits
    <3> HIDE DEF e1, e2
    <3>4. Applies(e1, q, Now) /\ Applies(e2, q, Now)
      BY <3>1, <3>2 DEF Applies, Started, Lapsed
    <3> QED
      BY <3>1, <3>3, <3>4 DEF RowsAbout
  <2> HIDE DEF q, snap, rules
  <2>11. Allowed(q, snap, Now, rules, 0)
           <=> /\ GrantReason(r, Now) = "consent_granted"
               /\ \E p \in snap.preferences : p.channel = q.channel
               /\ ~\E e \in snap.suppressions : Applies(e, q, Now)
    BY <2>1, <2>3, <2>6, <2>7, <2>8, <2>9, OneStatementDecides
  <2> QED
    BY <2>1, <2>2, <2>6, <2>7, <2>10, <2>11 DEF DemoSubject, DemoSubjects, OtherSubjects
<1>2. ContactableSubjects = {s \in DemoSubject : Contactable(s)}
  BY DEF ContactableSubjects, DemoSubject
<1>3. {101, 201} \subseteq DemoSubject
  BY DEF DemoSubject, DemoSubjects, OtherSubjects
<1> QED
  BY <1>1, <1>2, <1>3

LEMMA ContactsFollow == Filled /\ Quiet => ContactsFollowTheSeed
<1> SUFFICES ASSUME Filled, Quiet, Serving({"decide"})
             PROVE  /\ "consent" \notin raced \cup torn =>
                          ContactableSubjects = {101, 201} \ (IF stopped THEN {101} ELSE {})
                    /\ ContactableSubjects \subseteq {101, 104, 201}
  BY DEF ContactsFollowTheSeed
<1>1. PICK w \in Worker : pc[w] = "serve" /\ op[w] = "decide"
  BY DEF Serving
<1>2. Used("consent")
  BY <1>1, ServedIsUsed DEF Filled
<1>3. ~Fresh
  BY <1>2, ConsentIsAStore DEF Fresh, Filled, UsedAreFilled
<1>4. ~Filling
  <2>1. todo[w] = <<>> /\ op[w] \in Op
    BY <1>1 DEF Filled, StoresTypeOK
  <2>2. Has(w, "consent")
    BY <1>1, <2>1, PortByPort DEF Has
  <2> QED
    BY <2>2 DEF Filling
<1>5. "consent" \notin raced \cup torn => Settled
  BY <1>3, <1>4 DEF Quiet
<1> QED
  BY <1>5, ContactsSettled, ContactsWithin

LEMMA QuietFilledStep == Filled /\ Quiet /\ [Next]_vars => Filled' /\ Quiet'
BY FilledStep, QuietStep DEF Filled

\* Every decision served from a store that nobody raced for and no crash cut
\* off is the one the seed documents, less the acknowledged suppression; and in
\* any race, after any crash, only one subject more can be contacted.
THEOREM ContactsFollowTheSeedTheorem == Spec => []ContactsFollowTheSeed
BY FilledInit, QuietInit, QuietFilledStep, ContactsFollow, PTL DEF Spec
=============================================================================
