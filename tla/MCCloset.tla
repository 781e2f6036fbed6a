------------------------------ MODULE MCCloset ------------------------------
(* The closet for TLC, some of its calls at a time; or the due dates; or the    *)
(* starts that upgrade its database.  A behaviour runs one, as "part" says.     *)
EXTENDS MCCustody, DueDates, Upgrade
CONSTANTS w1, w2
VARIABLE part

Calling == [
    stock |-> {"checkout", "checkin", "lost", "retire", "unretire", "available",
               "unavailable", "delete"},
    accounts |-> {"checkout", "checkin", "retire", "archive", "delete_user", "unarchive",
                  "add_to_kit"},
    review |-> {"checkout", "checkin", "scan", "lost"},
    scan |-> {"checkout", "scan"}]
Arriving == [stock |-> "button", accounts |-> "kit", review |-> "typed", scan |-> "scan"]
AllCalls == UNION {Calling[c] : c \in DOMAIN Calling} \cup {"review", "time"}

\* What is asked, and how, is the part's; nothing else is begun.
Requested ==
    /\ \E r \in Requests : Call(r) \/ Step(r) \/ Abandon(r)
    /\ \A r \in Requests : job'[r].pc # "idle" =>
         /\ job'[r].op \in Calling[part]
         /\ job'[r].op \in Returns => job'[r].via = Arriving[part]

Passed == \E e \in Events : FallDue(e) \/ WindowPasses(e)
Reviewed == \E e \in Events : ResolveReview(e) \/ \E actor \in People : AnnotateCustodyEvent(actor, e)

\* Two releases after the first.
MCBinaries == {{1, 2}, {1, 2, 3}}
MCFirstSchemas == {{}, {1}}

Alike == Interchangeable \cup Permutations(Servers)

ClosetInit ==
    /\ Init /\ DueInit /\ UpgradeInit
    /\ part \in {"stock", "accounts", "review", "scan", "due", "upgrade"}
    /\ part # "due" => rules = DefaultRules
    /\ part # "upgrade" => applied = {}
ClosetNext ==
    /\ UNCHANGED part
    /\ \/ /\ UNCHANGED <<dueVars, upgradeVars>>
          /\ \/ part \in DOMAIN Calling /\ Requested
             \/ part = "stock" /\ \E a \in Assets : CreateAsset(a)
             \/ part = "accounts" /\ \E a \in Assets : RemoveAssetFromKit(a)
             \/ part = "review" /\ (Reviewed \/ Passed)
             \/ part = "scan" /\ Passed
       \/ part = "due" /\ DueNext /\ UNCHANGED <<vars, upgradeVars>>
       \/ part = "upgrade" /\ UpgradeNext /\ UNCHANGED <<vars, dueVars>>
ClosetSpec == ClosetInit /\ [][ClosetNext]_<<part, vars, dueVars, upgradeVars>>
=============================================================================
