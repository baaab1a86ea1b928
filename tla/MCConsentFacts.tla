--------------------------- MODULE MCConsentFacts ---------------------------
(* Instances of ConsentFacts: one subject with rows on file, a decoy       *)
(* subject and a decoy tenant, one purpose spelled in two ways and another *)
(* purpose, two channels, four instants.                                   *)
EXTENDS ConsentFacts

CONSTANTS t1, t2, s1, s2, news, News, ads, email, sms, web, proofdoc

MCFold == [p \in {news, News, ads, Blank} |-> IF p = News THEN news ELSE p]

NoSeed == [i \in Id |-> None]

Rec(i, tenant, subject, purpose, status, from, until, at) ==
    [id |-> i, tenant |-> tenant, subject |-> subject, purpose |-> purpose,
     status |-> status, basis |-> "explicit_opt_in", source |-> web,
     proof |-> proofdoc, from |-> from, until |-> until, at |-> at]

MCRecords ==
    {Rec(1, t1, s1, news, "granted", 1, 2, 1),
     Rec(1, t1, s1, News, "granted", None, None, 2),
     Rec(2, t1, s1, News, "withdrawn", None, None, 1),
     Rec(2, t1, s1, ads, "granted", None, None, 1),
     Rec(2, t1, s1, news, "pending_review", None, None, 2),
     Rec(2, t1, s1, news, "granted", 2, None, 2),
     Rec(3, t1, s2, news, "granted", None, None, 1),
     Rec(3, t1, s1, news, "unknown", None, None, 0),
     Rec(3, t2, s1, news, "withdrawn", None, None, 3)}

Pref(i, tenant, subject, channel, opted, at) ==
    [id |-> i, tenant |-> tenant, subject |-> subject, channel |-> channel,
     opted_in |-> opted, at |-> at]

MCPreferences ==
    {Pref(1, t1, s1, email, TRUE, 1), Pref(2, t1, s1, email, FALSE, 1),
     Pref(2, t1, s1, email, FALSE, 0), Pref(3, t1, s1, sms, TRUE, 2)}

Supp(i, scope, channel, purpose, from, until) ==
    [id |-> i, tenant |-> t1, subject |-> s1, scope |-> scope, channel |-> channel,
     purpose |-> purpose, from |-> from, until |-> until]

MCSuppressions ==
    {Supp(1, "all", None, Blank, 1, 2), Supp(1, "channel", sms, Blank, None, None),
     Supp(2, "purpose", None, News, 2, None)}

Cap(i, channel, max, window, purpose) ==
    [id |-> i, tenant |-> t1, channel |-> channel, max |-> max, window |-> window,
     purpose |-> purpose]

MCCaps ==
    {Cap(1, email, 0, 1, Blank), Cap(2, email, 1, 1, News), Cap(3, email, 2, 2, news)}

Sent(i, channel, at, offset) ==
    [id |-> i, tenant |-> t1, subject |-> s1, channel |-> channel,
     at |-> at, offset |-> offset]

MCSends == {Sent(1, email, 1, 0), Sent(2, email, 0, 1), Sent(2, sms, 2, 0)}

MCQuestions ==
    {[tenant |-> t1, subject |-> s1, purpose |-> p, channel |-> email] : p \in {news, News, ads}}
    \cup {[tenant |-> t1, subject |-> s1, purpose |-> news, channel |-> sms],
          [tenant |-> t2, subject |-> s1, purpose |-> news, channel |-> email],
          [tenant |-> t1, subject |-> s1, purpose |-> Blank, channel |-> email]}

Rule(kind, check, purpose) == [kind |-> kind, check |-> check, purpose |-> purpose]

MCRuleSets ==
    {{},
     {Rule("consent", "consent_required", ads), Rule("consent", "required_field", ads),
      Rule("claim", "consent_required", News)}}

MCAsOfs == 0..3
=============================================================================
