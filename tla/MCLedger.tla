------------------------------ MODULE MCLedger ------------------------------
EXTENDS Ledger

MCBank == (1 :> 2) @@ (2 :> 1)

Topic(parts, requests) == [parts |-> parts, requests |-> requests]
MCTopics ==
    {Topic({"transactions", "imports"}, 3), Topic({"sources", "entries"}, 3),
     Topic({"goals", "account", "entries"}, 3), Topic({"rules", "sources"}, 2),
     Topic({"rules", "subscriptions"}, 2), Topic({"subscriptions"}, 3),
     Topic({"categories", "templates", "limits"}, 3),
     Topic({"categories", "rules", "transactions"}, 2),
     Topic({"onboarding"}, 3), Topic({"onboarding", "account", "transactions"}, 2)}

InFlight == {h \in Handlers : handler[h].status \in {"read", "check"}}
Uses(part) == \E h \in Handlers : handler[h].request.table = part
Bounded ==
    /\ Cardinality(InFlight) <= 2
    /\ (handler[3].status # "new" /\ "imports" \in topic.parts) => Uses("imports")
    /\ (handler[3].status # "new" /\ "entries" \in topic.parts) => Uses("entries")
=============================================================================
