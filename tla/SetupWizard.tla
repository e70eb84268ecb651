----------------------------- MODULE SetupWizard -----------------------------
(***************************************************************************)
(* The setup wizard: two flows of direct messages with buttons, "setup"    *)
(* (`/jira setup`, or the installation of the plugin) and "oauth2"         *)
(* (`/jira instance install cloud-oauth`).  Each user has a step of each   *)
(* of them, and what the flow remembers: who delegated it to him, and the  *)
(* instance it is about.  A wizard also moves without a click of its user: *)
(* when somebody delegates to him, when he connects to Jira, when Jira     *)
(* calls back for the instance he installed, and when the one he delegated *)
(* to is done.                                                             *)
(*                                                                         *)
(* The flows are run by a library of the Mattermost server, modelled from  *)
(* its use: a click counts only at its flow's current step; the state is   *)
(* read, the button's function called, and the state that was read stored  *)
(* with what the function returned.  A user makes one click at a time.     *)
(***************************************************************************)
EXTENDS Naturals

CONSTANTS
    User,           \* Mattermost users
    Admin,          \* the system administrators among them
    NoUser,         \* nobody delegated the wizard
    ServerURL,      \* Jira servers
    CloudURL,       \* Jira Cloud instances
    NoURL,          \* the wizard is about no instance
    Idle,           \* no click in progress
    MaxStarts,      \* bound: how many times a wizard is started in all
    MaxCalls        \* bound: how many other commands and callbacks there are

Instance == ServerURL \cup CloudURL

ASSUME WizardAssumption ==
    /\ NoUser \notin User /\ NoURL \notin Instance
    /\ Admin \subseteq User
    /\ ServerURL \cap CloudURL = {}
    /\ MaxStarts \in Nat /\ MaxCalls \in Nat

VARIABLES
    wizard,     \* the stored state of each flow, for each user
    click,      \* the click of each user that is being worked on
    due,        \* moves that connectUser and httpACInstalled are about to make
    records,    \* the record of each instance
    listed,     \* the list of instances
    acting,     \* SetupWizardUserID: who installed an inactive cloud instance
    connected,  \* the instances each user is connected to
    starts,     \* how many times a wizard was started
    calls,      \* how many other commands and callbacks there were
    asked,      \* history: how many times each user delegated the wizard
    told,       \* history: how many times he was told that it is completed
    linked,     \* history: users who have connected
    prepared,   \* history: servers installed and OAuth clients configured
    called      \* history: users whose cloud instance Jira called back for

store   == <<records, listed, acting, connected>>
history == <<asked, told, linked, prepared, called>>
count   == <<starts, calls>>
vars    == <<wizard, click, due, store, count, history>>

-----------------------------------------------------------------------------
(* The steps and their buttons                                             *)

Flow == {"setup", "oauth2"}

ServerStep == {"server-add-link", "server-confirm-link",
               "server-configure-link1", "server-configure-link2"}

\* The steps of NewOAuth2Flow that a state may rest at, but for the last.
OAuth2Step == {"cloud-oauth-configure", "installed-app", "webhook", "connect"}

\* Those of NewSetupFlow; "none" when the flow has not begun or has ended.
Step == {"none", "welcome", "delegate", "delegated", "choose-edition",
         "announcement-question"} \cup ServerStep \cup OAuth2Step

FirstStep(f) == IF f = "setup" THEN "welcome" ELSE "cloud-oauth-configure"

\* Buttons that only lead to another step.
EditionButton == {<<"welcome", "delegate">>, <<"delegate", "choose-edition">>}

ServerButton == {<<"server-add-link", "server-confirm-link">>,
                 <<"server-confirm-link", "server-configure-link1">>,
                 <<"server-configure-link1", "server-configure-link2">>,
                 <<"server-configure-link2", "installed-app">>}

WebhookButton == {<<"installed-app", "webhook">>, <<"webhook", "webhook-done">>}

\* "Send message" also posts the announcement.
AnnouncementButton == {<<"announcement-question", "announcement-confirmation">>,
                       <<"announcement-question", "done">>}

\* cancelButton: not at a step that waits for a connection, nor at the last.
CancelButton == {<<s, "cancel">> :
    s \in Step \ {"none", "connect", "announcement-question"}}

Button == EditionButton \cup ServerButton \cup WebhookButton
              \cup AnnouncementButton \cup CancelButton

\* Mutant: the wizard does not wait for the connection.
NextUnconnected == [s \in {"webhook-done", "connected", "delegate-complete",
                           "announcement-confirmation"} |->
    IF s = "announcement-confirmation" THEN "done" ELSE "announcement-question"]

\* Steps that lead on by themselves (Next).
NextOf == [s \in {"webhook-done", "connected", "delegate-complete",
                  "announcement-confirmation"} |->
    CASE s = "webhook-done" -> "connect"
      [] s = "announcement-confirmation" -> "done"
      [] OTHER -> "announcement-question"]

Target == Step \cup DOMAIN NextOf \cup {"done", "cancel"}

State == [step: Step, from: User \cup {NoUser}, url: Instance \cup {NoURL}]

NoState == [step |-> "none", from |-> NoUser, url |-> NoURL]

TypeOK ==
    /\ wizard \in [Flow -> [User -> State]]
    /\ click \in [User -> [flow: Flow, to: Target, state: State] \cup {Idle}]
    /\ due \subseteq User \X {"connected", "installed-app"}
    /\ records \in [Instance -> {"none", "server", "inactive", "cloud", "oauth", "configured"}]
    /\ listed \subseteq Instance
    /\ acting \in [Instance -> User \cup {NoUser}]
    /\ connected \in [User -> SUBSET Instance]
    /\ starts \in Nat /\ calls \in Nat
    /\ asked \in [User -> Nat] /\ told \in [User -> Nat]
    /\ linked \subseteq User
    /\ prepared \subseteq Instance
    /\ called \subseteq User

Init ==
    /\ wizard = [f \in Flow |-> [u \in User |-> NoState]]
    /\ click = [u \in User |-> Idle]
    /\ due = {}
    /\ records = [i \in Instance |-> "none"]
    /\ listed = {}
    /\ acting = [i \in Instance |-> NoUser]
    /\ connected = [u \in User |-> {}]
    /\ starts = 0 /\ calls = 0
    /\ asked = [u \in User |-> 0]
    /\ told = [u \in User |-> 0]
    /\ linked = {} /\ prepared = {} /\ called = {}

-----------------------------------------------------------------------------
(* The library                                                             *)

\* Start: the state of a wizard that begins.
Started(f, from, url) == [step |-> FirstStep(f), from |-> from, url |-> url]

Start(f, u, from, url) ==
    /\ starts < MaxStarts
    /\ starts' = starts + 1
    /\ wizard' = [wizard EXCEPT ![f][u] = Started(f, from, url)]

Last(to) == IF to \in DOMAIN NextOf THEN NextOf[to] ELSE to

\* Mutant: the last step is not terminal, and the state stays.
MovedAndKept(st, to) ==
    IF Last(to) = "cancel" THEN NoState
    ELSE IF Last(to) = "done" THEN st
    ELSE [st EXCEPT !.step = Last(to)]

\* Go, up to a step that waits; a terminal step removes the state.
Moved(st, to) ==
    IF Last(to) \in {"cancel", "done"} THEN NoState ELSE [st EXCEPT !.step = Last(to)]

\* A button is clicked: what its function has returned is still to be stored.
Press(f, u, to, url) ==
    /\ click[u] = Idle
    /\ click' = [click EXCEPT ![u] =
          [flow |-> f, to |-> to, state |-> [wizard[f][u] EXCEPT !.url = url]]]

\* The state that was read is stored, and the wizard goes to the step.  The
\* last one tells whoever delegated it (stepDone, OnRender).
Land(u) ==
    LET c == click[u]
        d == c.state.from
        tells == Last(c.to) = "done" /\ d # NoUser
    IN  /\ c # Idle
        /\ click' = [click EXCEPT ![u] = Idle]
        /\ wizard' = [f \in Flow |-> [v \in User |->
              IF f = c.flow /\ v = u THEN Moved(c.state, c.to)
              ELSE IF f = "setup" /\ tells /\ v = d
                   THEN Moved(wizard[f][v], "delegate-complete")
              ELSE wizard[f][v]]]
        /\ told' = IF tells THEN [told EXCEPT ![d] = @ + 1] ELSE told
        /\ UNCHANGED <<due, store, count, asked, linked, prepared, called>>

\* The button's function reports an error after all, or the server dies.
Drop(u) ==
    /\ click[u] # Idle
    /\ click' = [click EXCEPT ![u] = Idle]
    /\ UNCHANGED <<wizard, due, store, count, history>>

\* InstallInstance, when the license allows: the record replaces any other.
Install(i, type) ==
    /\ records' = [records EXCEPT ![i] = type]
    /\ listed' = listed \cup {i}

-----------------------------------------------------------------------------
(* Clicks                                                                  *)

Click(f, u, to) ==
    /\ <<wizard[f][u].step, to>> \in Button
    /\ Press(f, u, to, wizard[f][u].url)
    /\ UNCHANGED <<wizard, due, store, count, history>>

\* Whoever is chosen, his own wizard begins anew, whatever it was at.
SubmitDelegateSelection(u, aider) ==
    /\ wizard["setup"][u].step = "delegate"
    /\ Press("setup", u, "delegated", wizard["setup"][u].url)
    /\ Start("setup", aider, u, NoURL)
    /\ asked' = [asked EXCEPT ![u] = @ + 1]
    /\ UNCHANGED <<calls, due, store, told, linked, prepared, called>>

\* Mutant: the flow's state has not the new instance's URL.
InitCreateWithoutURL(u, i) ==
    /\ wizard["setup"][u].step = "choose-edition"
    /\ i \in CloudURL
    /\ Press("setup", u, "cloud-oauth-configure", wizard["setup"][u].url)
    /\ Install(i, "oauth")
    /\ UNCHANGED <<wizard, due, acting, connected, count, history>>

\* installCloudOAuthInstance: the new record replaces that of an instance
\* that is installed, credentials and all.
InitCreateCloudOAuthInstance(u, i) ==
    /\ wizard["setup"][u].step = "choose-edition"
    /\ i \in CloudURL
    /\ Press("setup", u, "cloud-oauth-configure", i)
    /\ Install(i, "oauth")
    /\ UNCHANGED <<wizard, due, acting, connected, count, history>>

SubmitCreateServerInstance(u, i) ==
    /\ wizard["setup"][u].step = "choose-edition"
    /\ i \in ServerURL
    /\ Press("setup", u, "server-add-link", i)
    /\ Install(i, "server")
    /\ prepared' = prepared \cup {i}
    /\ UNCHANGED <<wizard, due, acting, connected, count, asked, told, linked, called>>

\* Mutant: the URL need not be that of an OAuth instance.
ConfigureAnyInstance(f, u, i) ==
    /\ wizard[f][u].step = "cloud-oauth-configure"
    /\ i \in CloudURL
    /\ Press(f, u, "installed-app", i)
    /\ records' = [records EXCEPT ![i] = IF @ \in {"oauth", "configured"} THEN "configured" ELSE @]
    /\ prepared' = IF records[i] \in {"oauth", "configured"} THEN prepared \cup {i} ELSE prepared
    /\ UNCHANGED <<wizard, due, listed, acting, connected, count, asked, told, linked, called>>

\* The credentials of an OAuth instance, that of the wizard or another: the
\* dialog has a field for its URL.
SubmitCreateCloudOAuthInstance(f, u, i) ==
    /\ wizard[f][u].step = "cloud-oauth-configure"
    /\ records[i] \in {"oauth", "configured"}
    /\ Press(f, u, "installed-app", i)
    /\ records' = [records EXCEPT ![i] = "configured"]
    /\ prepared' = prepared \cup {i}
    /\ UNCHANGED <<wizard, due, listed, acting, connected, count, asked, told, linked, called>>

-----------------------------------------------------------------------------
(* Commands and callbacks                                                  *)

\* Another command or callback of those the bound allows.
Call == calls < MaxCalls /\ calls' = calls + 1

ExecuteSetup(u) ==
    /\ u \in Admin
    /\ Start("setup", u, NoUser, NoURL)
    /\ UNCHANGED <<calls, click, due, store, history>>

\* The plugin is installed and has no instances.
OnInstall(u) ==
    /\ listed = {}
    /\ Start("setup", u, NoUser, NoURL)
    /\ UNCHANGED <<calls, click, due, store, history>>

\* Between its two parts the command may fail.
ExecuteInstanceInstallCloudOAuth(u, i) ==
    /\ Call
    /\ u \in Admin
    /\ i \in CloudURL
    /\ Install(i, "oauth")
    /\ Start("oauth2", u, NoUser, i) \/ UNCHANGED <<wizard, starts>>
    /\ UNCHANGED <<click, due, acting, connected, history>>

ExecuteInstanceInstallServer(u, i) ==
    /\ Call
    /\ u \in Admin
    /\ i \in ServerURL
    /\ Install(i, "server")
    /\ prepared' = prepared \cup {i}
    /\ UNCHANGED <<wizard, click, due, acting, connected, starts, asked, told, linked, called>>

\* installInactiveCloudInstance: the record replaces another unasked.
ExecuteInstanceInstallCloud(u, i) ==
    /\ Call
    /\ u \in Admin
    /\ i \in CloudURL
    /\ records' = [records EXCEPT ![i] = "inactive"]
    /\ acting' = [acting EXCEPT ![i] = u]
    /\ UNCHANGED <<wizard, click, due, listed, connected, starts, history>>

\* The administrator's setup wizard is to go to installed-app, wherever it
\* is and whatever instance it is about.
HttpACInstalled(i) ==
    /\ Call
    /\ records[i] = "inactive"
    /\ Install(i, "cloud")
    /\ due' = due \cup {<<acting[i], "installed-app">>}
    /\ called' = called \cup {acting[i]}
    /\ UNCHANGED <<wizard, click, acting, connected, starts, asked, told, linked, prepared>>

\* A user who connects, to whatever instance, is to go to connected, in the
\* setup flow and wherever he is; the oauth2 flow is left alone.
ConnectUser(u, i) ==
    /\ Call
    /\ records[i] \in {"server", "cloud", "configured"}
    /\ i \notin connected[u]
    /\ connected' = [connected EXCEPT ![u] = @ \cup {i}]
    /\ due' = due \cup {<<u, "connected">>}
    /\ linked' = linked \cup {u}
    /\ UNCHANGED <<wizard, click, records, listed, acting, starts, asked, told, prepared, called>>

DisconnectUser(u, i) ==
    /\ Call
    /\ i \in connected[u]
    /\ connected' = [connected EXCEPT ![u] = @ \ {i}]
    /\ UNCHANGED <<wizard, click, due, records, listed, acting, starts, history>>

\* The wizards that are about the instance go on.
ExecuteInstanceUninstall(i) ==
    /\ Call
    /\ i \in listed
    /\ listed' = listed \ {i}
    /\ records' = [records EXCEPT ![i] = "none"]
    /\ connected' = [u \in User |-> connected[u] \ {i}]
    /\ UNCHANGED <<wizard, click, due, acting, starts, history>>

Go(u, to) ==
    /\ <<u, to>> \in due
    /\ due' = due \ {<<u, to>>}
    /\ wizard' = [wizard EXCEPT !["setup"][u] = Moved(@, to)]
    /\ UNCHANGED <<click, store, count, history>>

\* The server dies, or Go fails, which neither caller looks at.
GoFails(u, to) ==
    /\ <<u, to>> \in due
    /\ due' = due \ {<<u, to>>}
    /\ UNCHANGED <<wizard, click, store, count, history>>

Next ==
    \/ \E u \in User : Land(u) \/ Drop(u) \/ ExecuteSetup(u) \/ OnInstall(u)
    \/ \E f \in Flow, u \in User, to \in Target : Click(f, u, to)
    \/ \E u, aider \in User : SubmitDelegateSelection(u, aider)
    \/ \E u \in User, i \in Instance :
          \/ InitCreateCloudOAuthInstance(u, i)
          \/ SubmitCreateServerInstance(u, i)
          \/ \E f \in Flow : SubmitCreateCloudOAuthInstance(f, u, i)
          \/ ExecuteInstanceInstallCloudOAuth(u, i)
          \/ ExecuteInstanceInstallServer(u, i)
          \/ ExecuteInstanceInstallCloud(u, i)
          \/ ConnectUser(u, i)
          \/ DisconnectUser(u, i)
    \/ \E i \in Instance : HttpACInstalled(i) \/ ExecuteInstanceUninstall(i)
    \/ \E u \in User, to \in {"connected", "installed-app"} : Go(u, to) \/ GoFails(u, to)

Spec == Init /\ [][Next]_vars

-----------------------------------------------------------------------------
\* A stored state, or one about to be stored, is about an instance of the
\* edition its step is for; the oauth2 flow has an instance and no delegator.
Fits(f, st) ==
    /\ st.step = "none" => st = NoState
    /\ st.step \in ServerStep => st.url \in ServerURL
    /\ st.step = "cloud-oauth-configure" => st.url \in CloudURL
    /\ f = "oauth2" /\ st # NoState =>
          st.step \in OAuth2Step /\ st.url \in CloudURL /\ st.from = NoUser

(* The type invariant, and that a wizard's step and what it remembers fit  *)
(* together, although a click stores a state that others may have replaced *)
(* since it was read; that only Cloud instances have OAuth clients, and an *)
(* inactive one has somebody who installed it.                             *)
IInv ==
    /\ TypeOK
    /\ \A i \in Instance :
          /\ records[i] \in {"oauth", "configured"} => i \in CloudURL
          /\ records[i] = "inactive" => acting[i] # NoUser
    /\ \A f \in Flow, u \in User : Fits(f, wizard[f][u])
    /\ \A u \in User : click[u] # Idle =>
          /\ click[u].flow = "oauth2" => click[u].state.from = NoUser
          /\ Fits(click[u].flow, Moved(click[u].state, click[u].to))

(* stepDelegateComplete: a user is told that the wizard he delegated is    *)
(* completed at most as often as he delegated it, to whomever, and however *)
(* delegations, restarts and clicks overlap.                               *)
ToldOnce == \A u \in User : told[u] <= asked[u]

(* "Success! You've successfully set up your Mattermost Jira integration!" *)
(* (stepAnnouncementQuestion) is shown to a user only after he, or someone *)
(* he delegated to, directly or not, has connected to Jira.                *)
SuccessNeedsConnection ==
    \A u \in User :
        /\ \A f \in Flow : wizard[f][u].step = "announcement-question" =>
              u \in linked \/ told[u] > 0
        /\ told[u] > 0 => linked # {}

(* A wizard comes to the webhook and the connection of an instance only    *)
(* after that server was installed, or that OAuth client configured; but   *)
(* for the users whom the callback of a cloud instance has moved there.    *)
InstalledFirst ==
    \A f \in Flow, u \in User :
        wizard[f][u].step \in {"installed-app", "webhook", "connect"} =>
            wizard[f][u].url \in prepared \/ (f = "setup" /\ u \in called)
=============================================================================
