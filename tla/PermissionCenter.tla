--------------------------- MODULE PermissionCenter ---------------------------
(***************************************************************************)
(* The panel of the web page that shows the pending requests of the runs   *)
(* of the UI server, one at a time, and sends the answers, open in one or  *)
(* several tabs.  It polls: every list it gets is as old as the request    *)
(* that fetched it, and two lists may arrive in the other order.           *)
(***************************************************************************)
EXTENDS Permissions

CONSTANTS
    Tabs,       \* open pages
    MaxLoads    \* lists on their way to one tab, a bound of the model only

VARIABLES
    items,   \* [Tabs -> the requests listed]
    loads,   \* [Tabs -> answers to load() on their way]
    busy,    \* [Tabs -> the click being worked off, or NoClick]
    (* History *)
    clicks   \* the pending requests for which a person clicked on allow

page == <<items, loads, busy, clicks>>
centerVars == <<permVars, page>>

NoClick == [step |-> "none", id |-> "none", response |-> Unanswered]

(* listPendingPermissions of the active runs.                              *)
PendingIds == [i \in DOMAIN gates |-> gates[i].id]

Allowing(id, response) ==
    {x \in clicks \cup {id}: Pending(x) /\ (x \in clicks \/ response.action = "allow")}

-----------------------------------------------------------------------------
(* load(), every 1.5 s and when the window is focused: the server answers  *)
(* at once, the answer travels.                                            *)
Load(t) ==
    /\ Free("server") /\ Len(loads[t]) < MaxLoads
    /\ loads' = [loads EXCEPT ![t] = Append(@, PendingIds)]
    /\ UNCHANGED <<permVars, items, busy, clicks>>

(* An answer arrives, whatever was asked after it; the click that waited   *)
(* for the list is over.                                                   *)
Show(t) ==
    \E i \in DOMAIN loads[t]:
       /\ items' = [items EXCEPT ![t] = loads[t][i]]
       /\ loads' = [loads EXCEPT ![t] = RemoveAt(@, i)]
       /\ busy' = IF busy[t].step = "reloading" /\ i = Len(loads[t])
                  THEN [busy EXCEPT ![t] = NoClick] ELSE busy
       /\ UNCHANGED <<permVars, clicks>>

(* One of the four buttons, for the first request listed; they are disabled*)
(* while an answer is being worked off.                                    *)
Click(t, response) ==
    /\ items[t] # <<>> /\ busy[t].step = "none"
    /\ busy' = [busy EXCEPT ![t] = [step |-> "posted", id |-> Head(items[t]), response |-> response]]
    /\ clicks' = Allowing(Head(items[t]), response)
    /\ UNCHANGED <<permVars, items, loads>>

(* POST /api/runs/:id/permission, and what the page does with the reply:   *)
(* it loads the list again, or says that the request is not pending.       *)
Post(t) ==
    /\ Free("server") /\ busy[t].step = "posted"
    /\ IF Pending(busy[t].id)
       THEN /\ Resolve(busy[t].id, busy[t].response)
            /\ busy' = [busy EXCEPT ![t].step = "reloading"]
            /\ loads' = [loads EXCEPT ![t] = Append(@, PendingIds)]
       ELSE /\ busy' = [busy EXCEPT ![t] = NoClick]
            /\ UNCHANGED <<permVars, loads>>
    /\ UNCHANGED <<items, clicks>>

CenterInit ==
    /\ PermInit
    /\ items = [t \in Tabs |-> <<>>] /\ loads = [t \in Tabs |-> <<>>]
    /\ busy = [t \in Tabs |-> NoClick] /\ clicks = {}

PageStep(t) == Load(t) \/ Show(t) \/ Post(t)

CenterNext ==
    \/ PermStep /\ UNCHANGED page
    \/ \E t \in Tabs: PageStep(t) \/ \E response \in Responses: Click(t, response)

(* The processes go on, and an open page goes on polling and receives every*)
(* answer; nobody need answer, and the stages need not call.               *)
Fairness ==
    /\ WF_centerVars(PermProgress /\ UNCHANGED page)
    /\ \A t \in Tabs: WF_centerVars(Load(t)) /\ WF_centerVars(Post(t)) /\ WF_centerVars(Show(t))

CenterSpec == CenterInit /\ [][CenterNext]_centerVars /\ Fairness

-----------------------------------------------------------------------------
(* Properties.                                                             *)

(* How specific a rule is about a call: exact match > glob > wildcard.     *)
Specificity(r, k) == IF r.pattern = k.subject THEN 3 ELSE IF r.pattern \in {"*", "**"} THEN 1 ELSE 2

(* "Most specific rule wins (exact match > glob > wildcard)"               *)
(* (permission-store.ts:78): a rule that is more specific about a call     *)
(* than every other one decides it.  findRule goes by age alone: a glob    *)
(* that was remembered later overrides an exact rule.                      *)
MostSpecificRuleWins ==
    \A k \in ToolCalls : \A i \in RulesFor(k) :
        (\A j \in RulesFor(k) \ {i} : Specificity(Loaded[i], k) > Specificity(Loaded[j], k))
        => FindRule(k) = Loaded[i].action

LatestRuleAllows(k) ==
    \E i \in DOMAIN Loaded:
        /\ Covers(Loaded[i], k) /\ Loaded[i].action = "allow"
        /\ \A j \in DOMAIN Loaded: Covers(Loaded[j], k) /\ Loaded[j].action = "deny" => j < i

Consented(c) ==
    \/ Mode[c] \in {"auto", "sandbox"}
    \/ Mode[c] = "confirm" /\ Risk(call[c]) = "safe"
    \/ Id(c) \in clicks
    \/ LatestRuleAllows(call[c])

(* A tool is executed only with consent for that very call: the mode asks  *)
(* for none, a person allowed this request on what a page showed, or the   *)
(* latest rule about it allows it; stale lists, answers given twice and    *)
(* rules remembered in other runs included.  "Latest" is what findRule     *)
(* does, not what its comment says: see MostSpecificRuleWins.              *)
OnlyWithConsent ==
    [][\A c \in Callers: phase[c] # "allow" /\ phase'[c] = "allow" => Consented(c)']_centerVars

(* What persons asked to remember is what the file says, whichever run,    *)
(* page or command they used, as long as no two processes were at the file *)
(* at the same time: each saves all rules, with what it has read.          *)
RulesKept == (~raced /\ \A p \in Processes: Free(p)) => ToSet(Loaded) = decided

Asking == {Id(c): c \in {d \in Callers: phase[d] = "asking"}}

(* Every open page shows, again and again, exactly the requests that wait: *)
(* none stays hidden and none that was answered stays listed, though lists *)
(* overtake each other.                                                    *)
PanelKeepsUp == \A t \in Tabs: []<>(ToSet(items[t]) = Asking)
=============================================================================
