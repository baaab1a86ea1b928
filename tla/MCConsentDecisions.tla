------------------------- MODULE MCConsentDecisions -------------------------
(* Instances of ConsentDecisions: decisions about one person on one        *)
(* channel while another thread writes; two purposes, of which the market  *)
(* requires ads.                                                           *)
EXTENDS ConsentDecisions, TLC

CONSTANTS t1, s1, news, ads, email, sms, web, proofdoc, ann, dan, w1, w2

MCFold == [p \in {news, ads, Blank} |-> p]

MCTenantOf == [p \in Principal |-> IF p = ann THEN t1 ELSE Blank]

\* The threads differ in nothing.
MCSymmetry == Permutations({w1, w2})

\* What the trail, the console and the checkers have seen decides nothing here.
MCView == <<tables, now, calls, pc, who, write, decisionVars>>

NoSeed == [i \in Id |-> None]

Seeded(rows) ==
    [i \in Id |-> IF \E r \in rows : r.id = i THEN CHOOSE r \in rows : r.id = i ELSE None]

Record(i, tenant, purpose, status, at) ==
    [id |-> i, tenant |-> tenant, subject |-> s1, purpose |-> purpose,
     status |-> status, basis |-> "explicit_opt_in", source |-> web, proof |-> proofdoc,
     from |-> None, until |-> None, at |-> at]

Preference(i, tenant, opted) ==
    [id |-> i, tenant |-> tenant, subject |-> s1, channel |-> email,
     opted_in |-> opted, at |-> 0]

Cap(i, tenant, max) ==
    [id |-> i, tenant |-> tenant, channel |-> email, max |-> max, window |-> 1,
     purpose |-> Blank]

\* On file at first: consent to both purposes, an opt-in, one message a unit.
BothGranted == Seeded({Record(1, t1, news, "granted", 0), Record(2, t1, ads, "granted", 0)})
NewsGranted == Seeded({Record(1, t1, news, "granted", 0)})
OptedIn  == Seeded({Preference(1, t1, TRUE)})
OptedOut == Seeded({Preference(1, t1, FALSE)})
OneEach  == Seeded({Cap(1, t1, 1)})

\* What is written meanwhile.
NoBodies == {}
MCRecords ==
    {Record(1, Blank, news, "withdrawn", 0), Record(3, Blank, news, "granted", 0)}
NewsWithdrawal == {Record(1, Blank, news, "withdrawn", 0)}
MCPreferences == {Preference(2, Blank, FALSE)}
OptIn == {Preference(2, Blank, TRUE)}
MCSuppressions ==
    {[id |-> 1, tenant |-> Blank, subject |-> s1, scope |-> "purpose", channel |-> None,
      purpose |-> news, from |-> None, until |-> None]}
MCCaps == {Cap(1, Blank, 0), Cap(1, Blank, 2)}
Send(channel) ==
    [id |-> 1, tenant |-> Blank, subject |-> s1, channel |-> channel, at |-> None,
     offset |-> 0]
MCSends == {Send(email), Send(sms)}


Question(purpose) == [subject |-> s1, purpose |-> purpose, channel |-> email]
NewsQuestion == {Question(news)}
JustNow == {None}
UnitLater == {1}
MCMarket == {[kind |-> "consent", check |-> "consent_required", purpose |-> ads]}
=============================================================================
