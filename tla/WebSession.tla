----------------------------- MODULE WebSession -----------------------------
(***************************************************************************)
(* What the web application knows of its user: the session it has loaded,  *)
(* the CSRF token, the selected organization and the open page, under      *)
(* loads that overlap, guards that wait for them and pages that ask for a  *)
(* new one after a change.                                                 *)
(*                                                                         *)
(* Organizations are numbered in the order the API lists them.  The effect *)
(* that keeps the selection runs before any other event is handled, so it  *)
(* is part of the step that changes the session's state.                   *)
(***************************************************************************)
EXTENDS Integers, FiniteSets, FiniteSetsExt

CONSTANTS
  WebOrganizations, \* positive integers
  MaxLoads,         \* how often one run of the application asks for the session
  MaxAccounts       \* how often the account changes at the server

ASSUME WebAssumption == WebOrganizations \subseteq Nat \ {0}

VARIABLES
  apiSession,      \* what the API answers whoever asks for the session
  accounts,        \* how often it has changed
  view,            \* the session's state: kind and answer
  csrfToken,
  loads,           \* the requests of the session
  loadPromise,     \* the one whoever does not insist is given
  selected,        \* the organization of the workspace filter
  page,            \* the open page and its organization
  navigation,      \* the page asked for, and the load its guards wait for
  pending          \* the changes of pages and the load each then insisted on

webVars ==
  <<apiSession, accounts, view, csrfToken, loads, loadPromise, selected, page, navigation,
    pending>>

Unset == 0
Loads == 1..MaxLoads
Access == {"none", "member", "manager"}

Answer(token, access) == [token |-> token, access |-> access]
Anonymous == Answer(Unset, [o \in WebOrganizations |-> "none"])

State(kind, answer) == [kind |-> kind, answer |-> answer]

\* computed organizations(): empty unless authenticated.
Joined(v) ==
  IF v.kind = "authenticated" THEN {o \in WebOrganizations : v.answer.access[o] # "none"} ELSE {}

\* fault: an organization that is no longer listed stays selected.
KeepsSelection(current, organizations) ==
  IF current # Unset \/ organizations = {} THEN current ELSE Min(organizations)

\* syncOrganizations: keep what is still listed, else take the first.
Synced(current, organizations) ==
  IF current \in organizations THEN current
  ELSE IF organizations = {} THEN Unset ELSE Min(organizations)

\* setOrganization: only one that is listed.
Chosen(current, wanted, organizations) ==
  IF wanted \in organizations THEN wanted ELSE current

-----------------------------------------------------------------------------
(* The routes and their guards.                                            *)

OrganizationPages == {"sales", "team"}    \* operations is as sales, governance as team
OpenPages == {"sign-in", "denied"}

Page(name, org) == [name |-> name, org |-> org]

Pages ==
  {Page(n, Unset) : n \in OpenPages \cup {"home", "profile"}}
    \cup {Page(n, o) : n \in OrganizationPages \cup {"accept"}, o \in WebOrganizations}

\* organizationMemberGuard and teamManagerGuard.
Admits(answer, p) ==
  CASE p.name = "sales" -> answer.access[p.org] # "none"
    [] p.name = "team"  -> answer.access[p.org] = "manager"
    [] OTHER            -> TRUE

Admitted(result, p) ==
  IF result.kind # "authenticated" THEN Page("sign-in", Unset)
  ELSE IF Admits(result.answer, p) THEN p ELSE Page("denied", Unset)

-----------------------------------------------------------------------------
Unsent == [pc |-> "none", result |-> State("loading", Anonymous)]
NowhereTo == [to |-> Page("home", Unset), load |-> Unset]
PendingChange(kind, org, load) == [kind |-> kind, org |-> org, load |-> load]

\* A fresh run of the application: its constructor asks for the session, and the
\* router for the page of the address.
Started(p) ==
  /\ view' = State("loading", Anonymous)
  /\ csrfToken' = Unset
  /\ loads' = [l \in Loads |-> IF l = 1 THEN [Unsent EXCEPT !.pc = "sent"] ELSE Unsent]
  /\ loadPromise' = 1
  /\ selected' = Unset
  /\ page' = Page("blank", Unset)
  /\ navigation' = [to |-> p, load |-> 1]
  /\ pending' = {}

WebInit ==
  /\ apiSession \in [token : {1}, access : [WebOrganizations -> Access]]
  /\ accounts = 0
  /\ view = State("loading", Anonymous)
  /\ csrfToken = Unset
  /\ loads = [l \in Loads |-> IF l = 1 THEN [Unsent EXCEPT !.pc = "sent"] ELSE Unsent]
  /\ loadPromise = 1
  /\ selected = Unset
  /\ page = Page("blank", Unset)
  /\ \E p \in Pages : p.name # "denied" /\ navigation = [to |-> p, load |-> 1]
  /\ pending = {}

Unused == {l \in Loads : loads[l].pc = "none"}

\* ensureLoaded(true): a new promise takes the place of the one there is.
Insist ==
  /\ Unused # {}
  /\ view' = State("loading", Anonymous)
  /\ selected' = Synced(selected, {})
  /\ loads' = [loads EXCEPT ![Min(Unused)].pc = "sent"]
  /\ loadPromise' = Min(Unused)

ServeLoad(l) ==
  /\ loads[l].pc = "sent"
  /\ loads' = [loads EXCEPT ![l] =
       [pc |-> "served",
        result |-> State(IF apiSession.token = Unset THEN "anonymous" ELSE "authenticated",
                         apiSession)]]
  /\ UNCHANGED <<apiSession, accounts, view, csrfToken, loadPromise, selected, page,
                 navigation, pending>>

\* The token of an answer: none without a session.
TokenOf(result) == IF result.kind = "authenticated" THEN result.answer.token ELSE Unset

\* fetchSession: whichever answer comes sets the state.
Settles(l, result) ==
  /\ loads' = [loads EXCEPT ![l] = [pc |-> "over", result |-> result]]
  /\ view' = result
  /\ csrfToken' = TokenOf(result)
  /\ selected' = Synced(selected, Joined(result))
  /\ UNCHANGED <<apiSession, accounts, loadPromise, page, navigation, pending>>

ArriveLoad(l) == loads[l].pc = "served" /\ Settles(l, loads[l].result)

FailLoad(l) == loads[l].pc \in {"sent", "served"} /\ Settles(l, State("error", Anonymous))

\* A link or the address bar within the application; a later one supersedes an earlier.
\* The guards take the promise there is: ensureLoaded().
Navigate(p) ==
  /\ p # page /\ page.name # "blank"
  /\ IF p.name \in OpenPages THEN page' = p /\ navigation' = NowhereTo
     ELSE navigation' = [to |-> p, load |-> loadPromise] /\ UNCHANGED page
  /\ UNCHANGED <<apiSession, accounts, view, csrfToken, loads, loadPromise, selected, pending>>

\* The guards go on with what their own load returned; the page then reads the state.
GuardsAnswer ==
  /\ navigation.load # Unset /\ loads[navigation.load].pc = "over"
  /\ page' = Admitted(loads[navigation.load].result, navigation.to)
  /\ selected' = IF page'.name \in OrganizationPages
                 THEN Chosen(selected, page'.org, Joined(view)) ELSE selected
  /\ navigation' = NowhereTo
  /\ UNCHANGED <<apiSession, accounts, view, csrfToken, loads, loadPromise, pending>>

\* selectOrganization of the shell and of the home page.
SelectOrganization(o) ==
  /\ o \in Joined(view)
  /\ selected' = Chosen(selected, o, Joined(view))
  /\ LET to == CASE page.name = "sales" -> {Page("sales", o)}
                 [] page.name = "team"  -> {IF view.answer.access[o] = "manager"
                                            THEN Page("team", o) ELSE Page("home", Unset)}
                 [] OTHER -> {}
     IN  IF to \subseteq {page} THEN UNCHANGED navigation
         ELSE \E p \in to : navigation' = [to |-> p, load |-> loadPromise]
  /\ UNCHANGED <<apiSession, accounts, view, csrfToken, loads, loadPromise, page, pending>>

-----------------------------------------------------------------------------
(* Changes after which a page insists on a new load.                       *)

\* The profile or the governance policy is saved, or the sign-in page tries again.
SaveAndReload ==
  /\ page.name \in {"profile", "team", "sign-in"}
  /\ Insist
  /\ pending' = pending \cup {PendingChange("saved", Unset, loadPromise')}
  /\ UNCHANGED <<apiSession, accounts, csrfToken, page, navigation>>

\* An organization is created at home, or an invitation accepted.
Join(o) ==
  /\ page.name = "home" \/ page = Page("accept", o)
  /\ accounts < MaxAccounts
  /\ apiSession.token # Unset /\ csrfToken = apiSession.token
  /\ apiSession.access[o] = "none"
  /\ apiSession' = [apiSession EXCEPT !.access[o] =
       IF page.name = "home" THEN "manager" ELSE "member"]
  /\ accounts' = accounts + 1
  /\ Insist
  /\ pending' = pending \cup
       {PendingChange(IF page.name = "home" THEN "created" ELSE "accepted", o, loadPromise')}
  /\ UNCHANGED <<csrfToken, page, navigation>>

\* When the load has come, a created organization is selected and its team opened.
AfterReload ==
  /\ \E c \in pending :
       /\ loads[c.load].pc = "over"
       /\ pending' = pending \ {c}
       /\ IF c.kind = "created"
          THEN /\ selected' = Chosen(selected, c.org, Joined(view))
               /\ navigation' = [to |-> Page("team", c.org), load |-> loadPromise]
          ELSE UNCHANGED <<selected, navigation>>
  /\ UNCHANGED <<apiSession, accounts, view, csrfToken, loads, loadPromise, page>>

\* Whatever becomes of the logout request, the page is loaded anew.
SignOut ==
  /\ view.kind = "authenticated"
  /\ apiSession' \in {Anonymous, apiSession}
  /\ UNCHANGED accounts
  /\ Started(Page("sign-in", Unset))

-----------------------------------------------------------------------------
(* Around the application: the session ends, and access is given and       *)
(* taken.                                                                  *)

AccountChanges ==
  /\ accounts < MaxAccounts
  /\ accounts' = accounts + 1
  /\ \/ apiSession' = Anonymous
     \/ \E o \in WebOrganizations, a \in Access :
          apiSession.token # Unset /\ apiSession' = [apiSession EXCEPT !.access[o] = a]
  /\ apiSession' # apiSession
  /\ UNCHANGED <<view, csrfToken, loads, loadPromise, selected, page, navigation, pending>>

\* The sign-in ends at the API's redirect to the page that was asked for.
SignIn ==
  /\ page.name = "sign-in" /\ accounts < MaxAccounts
  /\ accounts' = accounts + 1
  /\ \E access \in [WebOrganizations -> Access] : apiSession' = Answer(accounts + 2, access)
  /\ \E p \in Pages : p.name \notin OpenPages /\ Started(p)

WebNext ==
  \/ \E l \in Loads : ServeLoad(l) \/ ArriveLoad(l) \/ FailLoad(l)
  \/ \E p \in Pages : Navigate(p)
  \/ GuardsAnswer \/ AfterReload \/ SaveAndReload \/ SignOut
  \/ \E o \in WebOrganizations : SelectOrganization(o) \/ Join(o)
  \/ AccountChanges \/ SignIn

WebSpec == WebInit /\ [][WebNext]_webVars

-----------------------------------------------------------------------------
(* The properties.                                                         *)

\* Whichever load came last, the token sent with changes and the selected organization
\* are those of the session shown: no token without a session, none of another session,
\* and a selection exactly when there is an organization to select.
ShownTogether ==
  /\ view.kind = "authenticated" => csrfToken = view.answer.token
  /\ view.kind \in {"anonymous", "error"} => csrfToken = Unset
  /\ selected \in Joined(view) \/ (selected = Unset /\ Joined(view) = {})

\* The organization whose page is open stays selected through every load of the session,
\* while its user belongs to it: the selection is kept for the "Current application
\* session" (docs/WORKSPACE_UI.md:37).
SelectionLasts ==
  [][(\E l \in Loads : loads[l].pc # "over" /\ loads'[l].pc = "over")
        /\ page.name \in OrganizationPages /\ page.org \in Joined(view')
      => selected' = page.org]_webVars
=============================================================================
