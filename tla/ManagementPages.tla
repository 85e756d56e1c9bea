-------------------------- MODULE ManagementPages ---------------------------
(***************************************************************************)
(* The team page and the governance page of the web application: their     *)
(* changes and the reloads after them, which overlap, answer in any order  *)
(* and read two resources each, the one-time secret and the policy form.   *)
(*                                                                         *)
(* One page is modelled from its opening until it is left.  What the API   *)
(* keeps is a version that every accepted change advances.                 *)
(***************************************************************************)
EXTENDS Integers, FiniteSets, FiniteSetsExt

CONSTANTS
  Targets,      \* members of the team, data sources of governance
  MaxCalls,     \* changes the user asks for
  MaxReads      \* loads of the page

VARIABLES
  pageName,
  version,      \* of what the API keeps
  shown,        \* the data service's state: kind and what each part shows
  reads,        \* the loads: what each part was answered
  calls,        \* the changes
  saving,       \* savingUserId, or saving: the label of one change
  form,         \* the policy form: the version it was filled from, and whether edited
  credential,   \* the secret in the dialog
  everShown     \* history: the secrets that were in the dialog

managementVars ==
  <<pageName, version, shown, reads, calls, saving, form, credential, everShown>>

Calls == 1..MaxCalls
Reads == 1..MaxReads
\* A page is the settings (of the team: its name), the rows of its tables, and the audit
\* trail; the first two come in one answer, read by statements one after the other.
Parts == {"head", "rows", "audit"}
Nothing == 0

Label(action, target) == [action |-> action, target |-> target]

Showing(kind, parts) == [kind |-> kind, parts |-> parts]
NoParts == [p \in Parts |-> Nothing]

NoRead == [pc |-> "none", parts |-> NoParts]
NoCall ==
  [pc |-> "none", label |-> Label("none", Nothing), made |-> Nothing, read |-> Nothing,
   told |-> NoParts]

-----------------------------------------------------------------------------
(* What the pages offer, and when.                                         *)

TeamActions ==
  {Label("add", Nothing)} \cup {Label(a, t) : a \in {"change", "remove"}, t \in Targets}

GovernanceActions ==
  {Label("policy", Nothing), Label("invite", Nothing)}
    \cup {Label(a, t) : a \in {"rotate", "revoke"}, t \in Targets}

Offered == IF pageName = "team" THEN TeamActions ELSE GovernanceActions

\* The flag of a change: its target, or what it is called where it has none.
FlagOf(label) == IF label.target = Nothing THEN label ELSE Label("target", label.target)
NoFlag == Label("none", Nothing)

\* Buttons are there only while data is shown; only the flagged one is disabled.
Enabled(label) ==
  /\ shown.kind = "ready"
  /\ label.action # "add" => saving # FlagOf(label)

HandsSecret(label)   == label.action = "rotate"
\* These tell their success before the page is loaded again.
TellsAtOnce(label)   == label.action \in {"policy", "revoke"}

-----------------------------------------------------------------------------
ManagementInit ==
  /\ pageName \in {"team", "governance"}
  /\ version = 1
  /\ shown = Showing("loading", NoParts)
  /\ reads = [r \in Reads |-> IF r = 1 THEN [NoRead EXCEPT !.pc = "sent"] ELSE NoRead]
  /\ calls = [c \in Calls |-> NoCall]
  /\ saving = NoFlag
  /\ form = [of |-> Nothing, edited |-> FALSE]
  /\ credential = Nothing
  /\ everShown = {}

UnusedReads == {r \in Reads : reads[r].pc = "none"}

\* load: what is shown gives way at once, and its parts are asked for.
Load ==
  /\ UnusedReads # {}
  /\ shown' = Showing("loading", NoParts)
  /\ reads' = [reads EXCEPT ![Min(UnusedReads)].pc = "sent"]

Act(c, label) ==
  /\ calls[c].pc = "none" /\ \A b \in Calls : b < c => calls[b].pc # "none"
  /\ label \in Offered /\ Enabled(label)
  /\ calls' = [calls EXCEPT ![c].pc = "sent", ![c].label = label]
  /\ saving' = IF label.action = "add" THEN saving ELSE FlagOf(label)
  /\ UNCHANGED <<pageName, version, shown, reads, form, credential, everShown>>

\* The API applies a change; a secret is known by the version it was made in.
Apply(c) ==
  /\ calls[c].pc = "sent"
  /\ version' = version + 1
  /\ calls' = [calls EXCEPT ![c].pc = "applied", ![c].made = version + 1]
  /\ UNCHANGED <<pageName, shown, reads, saving, form, credential, everShown>>

\* A change is refused, or its answer is lost: an error, and the page stays as it is.
ActFails(c) ==
  /\ calls[c].pc \in {"sent", "applied"}
  /\ calls' = [calls EXCEPT ![c].pc = "failed"]
  /\ saving' = IF calls[c].label.action = "add" THEN saving ELSE NoFlag
  /\ UNCHANGED <<pageName, version, shown, reads, form, credential, everShown>>

\* The answer comes: governance clears its flag before the page is loaded again,
\* the team page after.
Accepted(c) ==
  /\ calls[c].pc = "applied"
  /\ Load
  /\ calls' = [calls EXCEPT ![c].pc = "reloading", ![c].read = Min(UnusedReads)]
  /\ saving' = IF pageName = "governance" THEN NoFlag ELSE saving
  /\ UNCHANGED <<pageName, version, form, credential, everShown>>

\* Try again, Refresh and the audit filters.
Refresh ==
  /\ shown.kind = "error" \/ (pageName = "governance" /\ shown.kind = "ready")
  /\ Load
  /\ UNCHANGED <<pageName, version, calls, saving, form, credential, everShown>>

Serve(r, part) ==
  /\ reads[r].pc = "sent" /\ reads[r].parts[part] = Nothing
  /\ reads' = [reads EXCEPT ![r].parts[part] = version]
  /\ UNCHANGED <<pageName, version, shown, calls, saving, form, credential, everShown>>

\* overview: settings, then invitations, sources and jobs, each as committed by then.
ServeHead(r) == Serve(r, "head")
ServeRows(r) == reads[r].parts["head"] # Nothing /\ Serve(r, "rows")
ServeAudit(r) == Serve(r, "audit")

\* fault: whoever waits goes on after any load.
WaitingForAny(r) == {c \in Calls : calls[c].pc = "reloading"}

\* What goes on after a load: the changes that waited for it.
Waiting(r) == {c \in Calls : calls[c].pc = "reloading" /\ calls[c].read = r}

Continue(r, state) ==
  /\ shown' = state
  /\ reads' = [reads EXCEPT ![r] = [NoRead EXCEPT !.pc = "over"]]
  /\ form' = IF pageName = "governance" /\ state.kind = "ready"
             THEN [of |-> state.parts["head"], edited |-> FALSE] ELSE form
  /\ calls' = [c \in Calls |->
       IF c \in Waiting(r)
       THEN [calls[c] EXCEPT !.pc = "over", !.told = state.parts] ELSE calls[c]]
  /\ LET secrets == {calls[c].made : c \in {x \in Waiting(r) : HandsSecret(calls[x].label)}}
     IN  /\ everShown' = everShown \cup secrets
         /\ credential' = IF secrets = {} THEN credential ELSE Max(secrets)
  /\ saving' = IF pageName = "team"
                  /\ \E c \in Waiting(r) : calls[c].label.action # "add"
               THEN NoFlag ELSE saving
  /\ UNCHANGED <<pageName, version>>

\* All parts have come: whichever load it is, it is shown.
Arrive(r) ==
  /\ reads[r].pc = "sent" /\ \A p \in Parts : reads[r].parts[p] # Nothing
  /\ Continue(r, Showing("ready", reads[r].parts))

\* load swallows its error: whoever waited goes on.
LoadFails(r) ==
  /\ reads[r].pc = "sent"
  /\ Continue(r, Showing("error", NoParts))

Edit ==
  /\ pageName = "governance" /\ shown.kind = "ready" /\ ~form.edited
  /\ form' = [form EXCEPT !.edited = TRUE]
  /\ UNCHANGED <<pageName, version, shown, reads, calls, saving, credential, everShown>>

DismissSecret ==
  /\ credential # Nothing
  /\ credential' = Nothing
  /\ UNCHANGED <<pageName, version, shown, reads, calls, saving, form, everShown>>

ManagementNext ==
  \/ \E c \in Calls :
       \/ \E label \in Offered : Act(c, label)
       \/ Apply(c) \/ ActFails(c) \/ Accepted(c)
  \/ \E r \in Reads :
       ServeHead(r) \/ ServeRows(r) \/ ServeAudit(r) \/ Arrive(r) \/ LoadFails(r)
  \/ Refresh \/ Edit \/ DismissSecret

ManagementSpec == ManagementInit /\ [][ManagementNext]_managementVars

-----------------------------------------------------------------------------
(* The properties.                                                         *)

\* Whatever loads overlap, a page that tells the success of a change after loading
\* shows data and audit trail at least as new as the change, or an error; the secret of
\* an accepted rotation has been shown, even if that load failed, for it is shown once
\* only; and the policy form holds what is shown unless its user has edited it.
PageTellsItsChanges ==
  /\ \A c \in Calls : calls[c].pc = "over" =>
       /\ ~TellsAtOnce(calls[c].label) =>
            calls[c].told = NoParts \/ \A p \in Parts : calls[c].told[p] >= calls[c].made
       /\ HandsSecret(calls[c].label) => calls[c].made \in everShown
  /\ pageName = "governance" /\ shown.kind = "ready" /\ ~form.edited =>
       form.of = shown.parts["head"]
=============================================================================
