----------------------------- MODULE ProviderStore -----------------------------
(***************************************************************************)
(* The provider settings ~/.openthk/providers.json: the handlers of the UI *)
(* server that check and save them, its Providers page, the setup wizard   *)
(* and /providers of command lines, and what a run resolves them to.       *)
(*                                                                         *)
(* A process loads, changes and saves the file in one go, but not so that  *)
(* another process could not come in between: loading, truncating and      *)
(* writing it are steps.  The handler that saves waits for the provider's  *)
(* health check before that.                                               *)
(***************************************************************************)
EXTENDS Naturals, FiniteSets

CONSTANTS
    Ids,         \* of catalog providers
    Catalog,     \* [Ids -> [required: SUBSET {"key", "url"}, url: the default of the
                 \*  form or "", base: the catalog's URL]]
    Secrets,     \* API keys
    Urls,        \* that can be typed in
    Templates,   \* URLs with a placeholder in them
    Environment, \* [Ids -> the key in the environment, or ""]
    Requests,    \* of the page, on their way at once
    Terminals,   \* command lines
    Known        \* the files at first

ASSUME ProviderStoreAssumption ==
    /\ DOMAIN Catalog = Ids /\ DOMAIN Environment = Ids
    /\ {"", "undefined"} \cap (Secrets \cup Urls) = {}
    /\ \A id \in Ids: Catalog[id].required \subseteq {"key", "url"}
    /\ \A f \in Known: DOMAIN f = Ids
    /\ Requests \cap Terminals = {}

VARIABLES
    file,      \* [Ids -> the entry in providers.json, or NoEntry]
    pending,   \* [Writers -> the change it is about to save, or NoChange]
    req,       \* [Requests -> what the page has asked for]
    shown,     \* [Ids -> what the page shows]
    (* History *)
    wanted,    \* [Ids -> the last entry that anybody decided on]
    accepted,  \* the values providers have answered for
    harmed,    \* two writers overlapped, or one died while it wrote
    disturbed  \* since the page's last reload: by a terminal, another request, a crash

storeVars == <<file, pending, wanted, harmed>>
pageVars  == <<req, shown>>
provVars  == <<storeVars, pageVars, accepted, disturbed>>

Writers == Requests \cup Terminals

(* An API key is undefined or a text, which the wizard leaves empty.       *)
NoEntry  == [key |-> "undefined", url |-> "", checked |-> FALSE]
Nothing  == [id \in Ids |-> NoEntry]
NoChange == [step |-> "none", text |-> Nothing]
Blank    == [key |-> "", url |-> ""]
Unlisted == [id \in Ids |-> [configured |-> FALSE, key |-> FALSE]]
Free     == [kind |-> "none", id |-> "", host |-> 0, step |-> "free",
             values |-> Blank, entry |-> NoEntry, list |-> Unlisted]

-----------------------------------------------------------------------------
(* An entry and its catalog provider.                                      *)

KeyOf(entry) == IF entry.key = "undefined" THEN "" ELSE entry.key

(* mergeProviderValues: a field that is left blank keeps its value, or has *)
(* its default.                                                            *)
Merge(id, entry, input) ==
    [key |-> IF input.key # "" THEN input.key ELSE KeyOf(entry),
     url |-> CASE input.url # "" -> input.url
               [] input.url = "" /\ entry.url # "" -> entry.url
               [] OTHER -> Catalog[id].url]

(* validateProviderValues                                                  *)
Valid(id, key, url) ==
    /\ "key" \in Catalog[id].required => key # ""
    /\ "url" \in Catalog[id].required => url # ""
    /\ url \notin Templates

(* isProviderConfigured                                                    *)
Configured(id, entry) == entry # NoEntry /\ Valid(id, KeyOf(entry), entry.url)

(* buildProviderBaseUrl, buildProviderEntry                                *)
Entry(id, v) ==
    [key |-> IF v.key = "" THEN "undefined" ELSE v.key,
     url |-> IF v.url = "" THEN Catalog[id].base ELSE v.url,
     checked |-> TRUE]

(* What GET /api/providers says of the providers.                          *)
Listing == [id \in Ids |-> [configured |-> Configured(id, file[id]), key |-> KeyOf(file[id]) # ""]]

(* resolveProviderConfig: the environment counts without a saved key only. *)
SavedConfig(id) ==
    [key |-> IF file[id].key # "undefined" THEN file[id].key ELSE Environment[id],
     url |-> IF file[id] # NoEntry THEN file[id].url ELSE Catalog[id].base]

(* What a run gets whose pipeline names the provider, or has an object for *)
(* it with a key or a URL of its own (resolveProviders).  The objects of   *)
(* the legacy form do not look at the settings at all.                     *)
Resolved(id, item) ==
    LET saved == SavedConfig(id)
    IN IF item.form = "legacy"
       THEN [key |-> item.key, url |-> item.url]
       ELSE [key |-> IF item.key # "" THEN item.key ELSE saved.key,
             url |-> IF item.url # "" THEN item.url ELSE saved.url]

-----------------------------------------------------------------------------
(* The file.                                                               *)

(* What earlier sessions have checked was accepted then.                   *)
ProviderInit ==
    /\ file \in Known /\ wanted = file /\ shown = Listing
    /\ pending = [w \in Writers |-> NoChange] /\ req = [r \in Requests |-> Free]
    /\ accepted = {<<id, file[id].key, file[id].url>>: id \in {i \in Ids: file[i].checked}}
    /\ harmed = FALSE /\ disturbed = FALSE

(* Mutant: the entries of the others are not loaded.                       *)
ChangeAlone(w, id, entry) ==
    /\ pending' = [pending EXCEPT ![w] = [step |-> "loaded", text |-> [Nothing EXCEPT ![id] = entry]]]
    /\ wanted' = [wanted EXCEPT ![id] = entry]
    /\ harmed' = (harmed \/ \E v \in Writers: pending[v] # NoChange)
    /\ UNCHANGED file

(* addProvider and removeProvider: load the file and change the entry ...  *)
Change(w, id, entry) ==
    /\ pending' = [pending EXCEPT ![w] = [step |-> "loaded", text |-> [file EXCEPT ![id] = entry]]]
    /\ wanted' = [wanted EXCEPT ![id] = entry]
    /\ harmed' = (harmed \/ \E v \in Writers: pending[v] # NoChange)
    /\ UNCHANGED file

(* ... then truncate it; a file without text has no providers ...          *)
Truncate(w) ==
    /\ pending[w].step = "loaded"
    /\ file' = Nothing
    /\ pending' = [pending EXCEPT ![w].step = "truncated"]
    /\ UNCHANGED <<wanted, harmed>>

(* ... and write it, perhaps into what another process has just written.   *)
Write(w) ==
    /\ pending[w].step = "truncated"
    /\ file' \in {pending[w].text} \cup (IF file = Nothing THEN {} ELSE {Nothing})
    /\ pending' = [pending EXCEPT ![w] = NoChange]
    /\ UNCHANGED <<wanted, harmed>>

Saves(w) == Truncate(w) \/ Write(w)

---------------------------------------------------------------------------
(* The terminals: the wizard, which is run by /providers setup and the     *)
(* first time, and /providers remove.                                      *)

(* configureProvider asks for a key if one is required, and for the URL    *)
(* else, or when the catalog's is a template.                              *)
WizardEntries(id) ==
    LET needsKey == "key" \in Catalog[id].required
        typed == IF needsKey /\ Catalog[id].base \notin Templates THEN {} ELSE Urls
    IN  [key: IF needsKey THEN Secrets ELSE {""}, url: typed \cup {Catalog[id].base},
         checked: {FALSE}]

Configure(t) ==
    /\ pending[t] = NoChange
    /\ \E id \in Ids: \E entry \in WizardEntries(id): Change(t, id, entry)
    /\ disturbed' = TRUE
    /\ UNCHANGED <<pageVars, accepted>>

Unconfigure(t) ==
    /\ pending[t] = NoChange
    /\ \E id \in Ids: file[id] # NoEntry /\ Change(t, id, NoEntry)
    /\ disturbed' = TRUE
    /\ UNCHANGED <<pageVars, accepted>>

TerminalSaves(t) == Saves(t) /\ disturbed' = TRUE /\ UNCHANGED <<pageVars, accepted>>

---------------------------------------------------------------------------
(* The page.                                                               *)

Ask(r, kind, id, values, h) ==
    req' = [req EXCEPT ![r] = [kind |-> kind, id |-> id, host |-> h, step |-> "sent",
                               values |-> values, entry |-> NoEntry, list |-> Unlisted]]

Alone(r) == \A q \in Requests \ {r}: req[q] = Free

(* The modal insists on the required fields, but for a secret that is      *)
(* already configured.                                                     *)
Complete(id, v) ==
    /\ "key" \in Catalog[id].required => v.key # "" \/ shown[id].key
    /\ "url" \in Catalog[id].required => v.url # ""

(* The buttons of a card beside that of the modal.                         *)
Offers(id) == IF shown[id].configured THEN {"check", "remove"} ELSE {}

(* A load starts; when it is alone it makes up for what happened before.   *)
Reload(r, h) ==
    /\ Ask(r, "list", "", Blank, h)
    /\ disturbed' = ~(Alone(r) /\ \A w \in Writers: pending[w] = NoChange)

Refresh(r, h) == req[r] = Free /\ Reload(r, h) /\ UNCHANGED <<storeVars, shown, accepted>>

(* "Save and check" of the modal, onCheck and onRemove.                    *)
Send(r, h) ==
    /\ req[r] = Free
    /\ \E id \in Ids:
          \/ \E v \in [key: Secrets \cup {""}, url: Urls \cup {""}]:
                Complete(id, v) /\ Ask(r, "save", id, v, h)
          \/ \E kind \in Offers(id): Ask(r, kind, id, Blank, h)
    /\ disturbed' = (disturbed \/ ~Alone(r))
    /\ UNCHANGED <<storeVars, shown, accepted>>

(* Mutant: the list is not loaded again.                                   *)
TakeOnly(r, up) ==
    /\ req[r].step \in {"ok", "refused"}
    /\ shown' = IF req[r].kind = "list" /\ req[r].step = "ok" THEN req[r].list ELSE shown
    /\ req' = [req EXCEPT ![r] = Free] /\ UNCHANGED disturbed
    /\ UNCHANGED <<storeVars, accepted>>

(* An answer arrives.  After a success the list is loaded, if there is     *)
(* still a server.                                                         *)
Take(r, up) ==
    /\ req[r].step \in {"ok", "refused"}
    /\ shown' = IF req[r].kind = "list" /\ req[r].step = "ok" THEN req[r].list ELSE shown
    /\ \/ req[r].step = "ok" /\ req[r].kind # "list" /\ up /\ Reload(r, req[r].host)
       \/ /\ req[r].step = "refused" \/ req[r].kind = "list" \/ ~up
          /\ req' = [req EXCEPT ![r] = Free]
          /\ disturbed' = (disturbed \/ ~up)
    /\ UNCHANGED <<storeVars, accepted>>

---------------------------------------------------------------------------
(* The handlers of a server, which come one after the other.               *)

Turn(r) == \A q \in Requests \ {r}: req[q].host = req[r].host => pending[q] = NoChange

Step(r, step) == req' = [req EXCEPT ![r].step = step]

(* GET /api/providers                                                      *)
List(r) ==
    /\ req[r].kind = "list" /\ req[r].step = "sent" /\ Turn(r)
    /\ req' = [req EXCEPT ![r].step = "ok", ![r].list = Listing]
    /\ UNCHANGED <<storeVars, shown, accepted, disturbed>>

(* POST /api/providers merges and validates, POST .../check validates; the *)
(* connection is tried with what they have then.                           *)
Consider(r) ==
    /\ req[r].kind \in {"save", "check"} /\ req[r].step = "sent" /\ Turn(r)
    /\ LET id == req[r].id
           v == IF req[r].kind = "save" THEN Merge(id, file[id], req[r].values)
                ELSE [key |-> KeyOf(file[id]), url |-> file[id].url]
           entry == IF req[r].kind = "save" THEN Entry(id, v) ELSE file[id]
       IN IF Valid(id, v.key, v.url) /\ entry # NoEntry
          THEN req' = [req EXCEPT ![r].step = "checking", ![r].entry = entry]
          ELSE Step(r, "refused")
    /\ UNCHANGED <<storeVars, shown, accepted, disturbed>>

(* Mutant: what is saved is merged with the entry of now.                  *)
ConnectedAgain(r) ==
    /\ req[r].step = "checking" /\ Turn(r)
    /\ accepted' = accepted \cup {<<req[r].id, req[r].entry.key, req[r].entry.url>>}
    /\ IF req[r].kind = "save"
       THEN /\ Change(r, req[r].id, Entry(req[r].id, Merge(req[r].id, file[req[r].id], req[r].values)))
            /\ Step(r, "saving")
       ELSE Step(r, "ok") /\ UNCHANGED storeVars
    /\ UNCHANGED <<shown, disturbed>>

(* The health check succeeds: the entry is saved.                          *)
Connected(r) ==
    /\ req[r].step = "checking" /\ Turn(r)
    /\ accepted' = accepted \cup {<<req[r].id, req[r].entry.key, req[r].entry.url>>}
    /\ IF req[r].kind = "save"
       THEN Change(r, req[r].id, req[r].entry) /\ Step(r, "saving")
       ELSE Step(r, "ok") /\ UNCHANGED storeVars
    /\ UNCHANGED <<shown, disturbed>>

Unconnected(r) ==
    /\ req[r].step = "checking" /\ Turn(r) /\ Step(r, "refused")
    /\ UNCHANGED <<storeVars, shown, accepted, disturbed>>

(* DELETE /api/providers/:id                                               *)
Delete(r) ==
    /\ req[r].kind = "remove" /\ req[r].step = "sent" /\ Turn(r)
    /\ IF file[req[r].id] = NoEntry
       THEN Step(r, "ok") /\ UNCHANGED storeVars
       ELSE Change(r, req[r].id, NoEntry) /\ Step(r, "saving")
    /\ UNCHANGED <<shown, accepted, disturbed>>

HandlerSaves(r) ==
    /\ Saves(r)
    /\ Step(r, IF pending'[r] = NoChange THEN "ok" ELSE "saving")
    /\ UNCHANGED <<shown, accepted, disturbed>>

Handle(r) ==
    \/ List(r) \/ Consider(r) \/ Connected(r) \/ Unconnected(r) \/ Delete(r)
    \/ HandlerSaves(r)

(* The servers that die leave their requests unanswered and a change that  *)
(* they were saving unsaved.                                               *)
Die(hs) ==
    LET lost == {r \in Requests: req[r].host \in hs /\ req[r].step \notin {"free", "ok", "refused"}}
    IN  /\ req' = [r \in Requests |-> IF r \in lost THEN [req[r] EXCEPT !.step = "refused"] ELSE req[r]]
        /\ pending' = [w \in Writers |-> IF w \in lost THEN NoChange ELSE pending[w]]
        /\ harmed' = (harmed \/ \E r \in lost: pending[r] # NoChange)
        /\ disturbed' = (disturbed \/ lost # {})
        /\ UNCHANGED <<file, wanted, shown, accepted>>

---------------------------------------------------------------------------
(* Properties.                                                             *)

AtRest == \A w \in Writers: pending[w] = NoChange

(* Every provider is as it was last configured or removed, wherever that   *)
(* was done, unless two processes saved at the same moment or one died     *)
(* while it did: no entry is lost to the change of another one, and a      *)
(* check that takes its time brings nothing back but its own entry.        *)
EntriesKept == AtRest /\ ~harmed => file = wanted

(* An entry with a checkedAt was accepted by its provider with exactly the *)
(* key and the URL it has, whatever was saved while the check was running. *)
CheckedMeansAccepted ==
    \A id \in Ids: file[id].checked => <<id, file[id].key, file[id].url>> \in accepted

Items == [form: {"name", "object"}, key: Secrets \cup {""}, url: (Urls \ Templates) \cup {""}]

(* A page at rest shows what is in the file, unless a terminal has changed *)
(* it, a server has died or requests were on their way together since the  *)
(* list was last loaded; and a run gets a key and a URL it can use for     *)
(* what is shown as configured, whether its pipeline names the provider or *)
(* gives a part of it itself.                                              *)
PageTellsTruth ==
    AtRest /\ ~disturbed /\ (\A r \in Requests: req[r] = Free) =>
        /\ shown = Listing
        /\ \A id \in Ids, item \in Items: shown[id].configured =>
              Valid(id, Resolved(id, item).key, Resolved(id, item).url)
==============================================================================
