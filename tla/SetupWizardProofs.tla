-------------------------- MODULE SetupWizardProofs --------------------------
(***************************************************************************)
(* Proofs about SetupWizard, for any number of users, administrators and   *)
(* instances and however often wizards are started: a wizard's step and    *)
(* what it remembers fit together, nobody is told twice of a wizard he     *)
(* delegated once, success needs a connection, and the webhook is set up   *)
(* after the instance.                                                     *)
(***************************************************************************)
EXTENDS SetupWizard, FiniteSetTheorems, TLAPS

-----------------------------------------------------------------------------
(* The inductive invariant                                                 *)

\* Steps at which the instance of a wizard is there, but for those whom the
\* callback of a cloud instance has moved
Ready(f, u, st) ==
    st.step \in ServerStep \cup {"installed-app", "webhook", "connect"} =>
        st.url \in prepared \/ (f = "setup" /\ u \in called)

WizardOK(f, u) ==
    /\ Fits(f, wizard[f][u])
    /\ Ready(f, u, wizard[f][u])
    /\ wizard[f][u].step = "announcement-question" => u \in linked \/ told[u] > 0

\* No click leads to the success message; the last one follows it.
ClickOK(u) ==
    click[u] # Idle =>
        /\ click[u].flow = "oauth2" => click[u].state.from = NoUser
        /\ Fits(click[u].flow, Moved(click[u].state, click[u].to))
        /\ Ready(click[u].flow, u, Moved(click[u].state, click[u].to))
        /\ Last(click[u].to) # "announcement-question"
        /\ Last(click[u].to) = "done" => linked # {}

RecordsOK ==
    \A i \in Instance :
        /\ records[i] \in {"oauth", "configured"} => i \in CloudURL
        /\ records[i] = "inactive" => acting[i] # NoUser

DueOK ==
    \A u \in User : /\ <<u, "connected">> \in due => u \in linked
                    /\ <<u, "installed-app">> \in due => u \in called

WInv ==
    /\ TypeOK /\ RecordsOK /\ DueOK
    /\ \A f \in Flow, u \in User : WizardOK(f, u)
    /\ \A u \in User : ClickOK(u)
    /\ \A u \in User : told[u] > 0 => linked # {}

\* The users whose wizard, or a click of whom, still has user d as the one who
\* delegated it
Holders(d) ==
    {v \in User :
        \/ wizard["setup"][v].from = d
        \/ click[v] # Idle /\ click[v].flow = "setup" /\ click[v].state.from = d}

\* Each of them is asked for once and may tell once.
ToldInv ==
    \A d \in User : IsFiniteSet(Holders(d)) /\ told[d] + Cardinality(Holders(d)) <= asked[d]

-----------------------------------------------------------------------------
(* Steps and states                                                        *)

LEMMA NextOfIs ==
    /\ DOMAIN NextOf = {"webhook-done", "connected", "delegate-complete",
                        "announcement-confirmation"}
    /\ NextOf["webhook-done"] = "connect" /\ NextOf["connected"] = "announcement-question"
    /\ NextOf["delegate-complete"] = "announcement-question"
    /\ NextOf["announcement-confirmation"] = "done"
BY DEF NextOf

LEMMA LastIs ==
    /\ \A to \in Target : Last(to) \in Step \cup {"done", "cancel"}
    /\ Last("connected") = "announcement-question" /\ Last("installed-app") = "installed-app"
    /\ Last("delegate-complete") = "announcement-question" /\ Last("webhook-done") = "connect"
    /\ \A to : to \notin DOMAIN NextOf => Last(to) = to
<1>1. ASSUME NEW to \in Target PROVE Last(to) \in Step \cup {"done", "cancel"}
  <2>1. CASE to \in DOMAIN NextOf
    <3>1. Last(to) = NextOf[to]
      BY <2>1 DEF Last
    <3> QED
      BY <2>1, <3>1, NextOfIs DEF Step, OAuth2Step
  <2>2. CASE to \notin DOMAIN NextOf
    BY <1>1, <2>2 DEF Last, Target
  <2> QED
    BY <2>1, <2>2
<1>2. "installed-app" \notin DOMAIN NextOf
  BY NextOfIs
<1> QED
  BY <1>1, <1>2, NextOfIs DEF Last

LEMMA NoStateIs ==
    NoState \in State /\ NoState.step = "none" /\ NoState.from = NoUser /\ NoState.url = NoURL
BY DEF NoState, State, Step

LEMMA MovedIs ==
    ASSUME NEW st \in State, NEW to \in Target
    PROVE  /\ Moved(st, to) \in State
           /\ Last(to) \in {"cancel", "done"} => Moved(st, to) = NoState
           /\ Last(to) \notin {"cancel", "done"} =>
                 /\ Moved(st, to).step = Last(to) /\ Moved(st, to).from = st.from
                 /\ Moved(st, to).url = st.url
           /\ Moved(st, to).from \in {st.from, NoUser}
<1>1. CASE Last(to) \in {"cancel", "done"}
  BY <1>1, NoStateIs DEF Moved
<1>2. CASE Last(to) \notin {"cancel", "done"}
  <2>1. Last(to) \in Step /\ Moved(st, to) = [st EXCEPT !.step = Last(to)]
    BY <1>2, LastIs DEF Moved
  <2> QED
    BY <1>2, <2>1 DEF State
<1> QED
  BY <1>1, <1>2

LEMMA StartedIs ==
    ASSUME NEW f \in Flow, NEW from \in User \cup {NoUser}, NEW url \in Instance \cup {NoURL}
    PROVE  /\ Started(f, from, url) \in State
           /\ Started(f, from, url).step = FirstStep(f)
           /\ Started(f, from, url).from = from /\ Started(f, from, url).url = url
BY DEF Started, State, FirstStep, Step, Flow, OAuth2Step

LEMMA Types ==
    ASSUME TypeOK, NEW f \in Flow, NEW u \in User
    PROVE  /\ wizard[f][u] \in State /\ wizard[f] \in [User -> State]
           /\ wizard[f][u].from \in User \cup {NoUser}
           /\ wizard[f][u].url \in Instance \cup {NoURL}
           /\ wizard[f][u].step \in Step
           /\ click[u] # Idle => /\ click[u].flow \in Flow /\ click[u].to \in Target
                                 /\ click[u].state \in State
                                 /\ click[u].state.from \in User \cup {NoUser}
                                 /\ click[u].state.url \in Instance \cup {NoURL}
           /\ told[u] \in Nat /\ asked[u] \in Nat
BY DEF TypeOK, State

\* What an action has to show, when what has happened stays so
LEMMA Kept ==
    ASSUME WInv, TypeOK', RecordsOK', DueOK',
           linked \subseteq linked', prepared \subseteq prepared', called \subseteq called',
           \A u \in User : told[u] > 0 => told'[u] > 0,
           \A u \in User : told'[u] > 0 => linked' # {},
           \A f \in Flow, u \in User : wizard'[f][u] = wizard[f][u] \/ WizardOK(f, u)',
           \A u \in User : click'[u] = click[u] \/ click'[u] = Idle \/ ClickOK(u)'
    PROVE  WInv'
<1>1. ASSUME NEW f \in Flow, NEW u \in User, wizard'[f][u] = wizard[f][u]
      PROVE  WizardOK(f, u)'
  <2>1. WizardOK(f, u)
    BY DEF WInv
  <2> QED
    BY <1>1, <2>1 DEF WizardOK, Ready
<1>2. ASSUME NEW u \in User, click'[u] = click[u] PROVE ClickOK(u)'
  <2>1. ClickOK(u)
    BY DEF WInv
  <2> QED
    BY <1>2, <2>1 DEF ClickOK, Ready
<1>3. ASSUME NEW u \in User, click'[u] = Idle PROVE ClickOK(u)'
  BY <1>3 DEF ClickOK
<1> QED
  BY <1>1, <1>2, <1>3 DEF WInv

\* Only the store and the callbacks change.
LEMMA OnlyStore ==
    ASSUME WInv, TypeOK', RecordsOK', DueOK', UNCHANGED <<wizard, click, told>>,
           linked \subseteq linked', prepared \subseteq prepared', called \subseteq called'
    PROVE  WInv'
<1>1. \A u \in User : told'[u] > 0 => linked' # {}
  BY DEF WInv
<1> QED
  BY <1>1, Kept

LEMMA InitWInv == Init => WInv
<1> SUFFICES ASSUME Init PROVE WInv
  OBVIOUS
<1> USE DEF Init
<1>1. /\ \A f \in Flow, u \in User : wizard[f][u] = NoState
      /\ \A u \in User : click[u] = Idle /\ told[u] = 0
  OBVIOUS
<1>2. TypeOK
  BY NoStateIs DEF TypeOK
<1>3. \A f \in Flow, u \in User : WizardOK(f, u)
  BY <1>1, NoStateIs DEF WizardOK, Fits, Ready, ServerStep
<1>4. \A u \in User : ClickOK(u)
  BY <1>1 DEF ClickOK
<1> QED
  BY <1>1, <1>2, <1>3, <1>4 DEF WInv, RecordsOK, DueOK

-----------------------------------------------------------------------------
(* Clicks                                                                  *)

ClickType == [User -> [flow: Flow, to: Target, state: State] \cup {Idle}]

LEMMA Pressed ==
    ASSUME TypeOK, NEW f \in Flow, NEW u \in User, NEW to \in Target,
           NEW url \in Instance \cup {NoURL}, Press(f, u, to, url)
    PROVE  /\ click' \in ClickType /\ click[u] = Idle
           /\ click'[u].flow = f /\ click'[u].to = to /\ click'[u].state \in State
           /\ click'[u].state.from = wizard[f][u].from /\ click'[u].state.url = url
           /\ click'[u].state.step = wizard[f][u].step
           /\ \A v \in User \ {u} : click'[v] = click[v]
<1> DEFINE st == [wizard[f][u] EXCEPT !.url = url]
           c == [flow |-> f, to |-> to, state |-> st]
<1>1. /\ st \in State /\ st.from = wizard[f][u].from /\ st.url = url
      /\ st.step = wizard[f][u].step
  BY Types DEF State
<1>2. c \in [flow: Flow, to: Target, state: State] /\ c.flow = f /\ c.to = to /\ c.state = st
  BY <1>1
<1> HIDE DEF st
<1>3. click \in ClickType
  BY DEF TypeOK, ClickType
<1>4. click' = [click EXCEPT ![u] = c] /\ click[u] = Idle
  BY DEF Press, st
<1> HIDE DEF c
<1>5. click' \in ClickType /\ click'[u] = c /\ \A v \in User \ {u} : click'[v] = click[v]
  BY <1>2, <1>3, <1>4 DEF ClickType
<1> QED
  BY <1>1, <1>2, <1>4, <1>5

\* What the step a button leads to needs
LEMMA PressOK ==
    ASSUME WInv, NEW f \in Flow, NEW u \in User, NEW to \in Target,
           NEW url \in Instance \cup {NoURL}, Press(f, u, to, url),
           NEW last, last = Last(to), last \notin {"announcement-question", "none"},
           last = "done" => linked' # {},
           last \in ServerStep => url \in ServerURL,
           last = "cloud-oauth-configure" => url \in CloudURL,
           f = "oauth2" /\ last \notin {"cancel", "done"} =>
              last \in OAuth2Step /\ url \in CloudURL,
           last \in ServerStep \cup {"installed-app", "webhook", "connect"} =>
              url \in prepared' \/ (f = "setup" /\ u \in called')
    PROVE  ClickOK(u)'
<1>1. /\ click'[u].flow = f /\ click'[u].to = to /\ click'[u].state \in State
      /\ click'[u].state.from = wizard[f][u].from /\ click'[u].state.url = url
  BY Pressed DEF WInv
<1>2. f = "oauth2" => wizard[f][u].from = NoUser
  BY NoStateIs DEF WInv, WizardOK, Fits
<1>0. PICK m : m = Moved(click'[u].state, click'[u].to)
  OBVIOUS
<1>3. /\ last \in {"cancel", "done"} => m = NoState
      /\ last \notin {"cancel", "done"} =>
            m.step = last /\ m.from = wizard[f][u].from /\ m.url = url
  BY <1>0, <1>1, MovedIs
<1>4. Fits(f, m)
  BY <1>2, <1>3, NoStateIs DEF Fits, ServerStep
<1>5. last \in {"cancel", "done"} => m.step = "none"
  BY <1>3, NoStateIs
<1>6. m.step \in ServerStep \cup {"installed-app", "webhook", "connect"} =>
         m.url \in prepared' \/ (f = "setup" /\ u \in called')
  BY <1>3, <1>5 DEF ServerStep
<1>7. Ready(f, u, m)'
  BY <1>6 DEF Ready
<1> QED
  BY <1>0, <1>1, <1>2, <1>4, <1>7 DEF ClickOK, Ready

\* A button leads from a step of the wizard to one of the same kind, or ends it.
LEMMA ButtonOK ==
    ASSUME WInv, NEW f \in Flow, NEW u \in User, NEW to \in Target,
           <<wizard[f][u].step, to>> \in Button,
           NEW last, last = Last(to), NEW url, url = wizard[f][u].url
    PROVE  /\ last \notin {"announcement-question", "none", "cloud-oauth-configure"}
           /\ last = "done" => linked # {}
           /\ last \in ServerStep => url \in ServerURL
           /\ f = "oauth2" /\ last \notin {"cancel", "done"} =>
                 last \in OAuth2Step /\ url \in CloudURL
           /\ last \in ServerStep \cup {"installed-app", "webhook", "connect"} =>
                 url \in prepared \/ (f = "setup" /\ u \in called)
<1> DEFINE step == wizard[f][u].step
<1>1. WizardOK(f, u) /\ (told[u] > 0 => linked # {})
  BY DEF WInv
<1>2. to \notin DOMAIN NextOf => last = to
  BY LastIs
<1>3. CASE <<step, to>> \in EditionButton
  <2>1. step \in {"welcome", "delegate"} /\ last \in {"delegate", "choose-edition"}
    BY <1>2, <1>3, NextOfIs DEF EditionButton
  <2>2. f # "oauth2"
    BY <1>1, <2>1, NoStateIs DEF WizardOK, Fits, OAuth2Step
  <2> QED
    BY <2>1, <2>2 DEF ServerStep
<1>4. CASE <<step, to>> \in ServerButton
  <2>1. step \in ServerStep /\ last \in ServerStep \cup {"installed-app"}
    BY <1>2, <1>4, NextOfIs DEF ServerButton, ServerStep
  <2>2. f # "oauth2" /\ url \in ServerURL /\ (url \in prepared \/ (f = "setup" /\ u \in called))
    BY <1>1, <2>1, NoStateIs DEF WizardOK, Fits, OAuth2Step, ServerStep, Ready
  <2> QED
    BY <2>1, <2>2 DEF ServerStep
<1>5. CASE <<step, to>> \in WebhookButton
  <2>1. step \in {"installed-app", "webhook"} /\ last \in {"webhook", "connect"}
    BY <1>2, <1>5, NextOfIs, LastIs DEF WebhookButton
  <2>2. /\ f = "oauth2" => url \in CloudURL
        /\ url \in prepared \/ (f = "setup" /\ u \in called)
    BY <1>1, <2>1, NoStateIs DEF WizardOK, Fits, Ready
  <2> QED
    BY <2>1, <2>2 DEF ServerStep, OAuth2Step
<1>6. CASE <<step, to>> \in AnnouncementButton
  <2>1. step = "announcement-question" /\ last = "done"
    BY <1>2, <1>6, NextOfIs DEF AnnouncementButton, Last
  <2>2. linked # {}
    BY <1>1, <2>1 DEF WizardOK
  <2> QED
    BY <2>1, <2>2 DEF ServerStep
<1>7. CASE <<step, to>> \in CancelButton
  <2>1. last = "cancel"
    BY <1>2, <1>7, NextOfIs DEF CancelButton
  <2> QED
    BY <2>1 DEF ServerStep
<1> QED
  BY <1>3, <1>4, <1>5, <1>6, <1>7 DEF Button

LEMMA ClickKeeps ==
    ASSUME WInv, NEW f \in Flow, NEW u \in User, NEW to \in Target, Click(f, u, to)
    PROVE  WInv'
<1> USE DEF Click, store, count, history
<1>1. /\ TypeOK /\ RecordsOK /\ DueOK /\ (\A v \in User : told[v] > 0 => linked # {})
      /\ wizard[f][u].url \in Instance \cup {NoURL}
  BY Types DEF WInv
<1>2. /\ click' \in ClickType
      /\ \A v \in User \ {u} : click'[v] = click[v]
  BY <1>1, Pressed
<1>3. TypeOK'
  BY <1>1, <1>2 DEF TypeOK, ClickType
<1>4. ClickOK(u)'
  <2>1. PICK last : last = Last(to)
    OBVIOUS
  <2>2. PICK url : url = wizard[f][u].url
    OBVIOUS
  <2>3. /\ last \notin {"announcement-question", "none", "cloud-oauth-configure"}
        /\ last = "done" => linked # {}
        /\ last \in ServerStep => url \in ServerURL
        /\ f = "oauth2" /\ last \notin {"cancel", "done"} =>
              last \in OAuth2Step /\ url \in CloudURL
        /\ last \in ServerStep \cup {"installed-app", "webhook", "connect"} =>
              url \in prepared \/ (f = "setup" /\ u \in called)
    BY <2>1, <2>2, ButtonOK
  <2>4. Press(f, u, to, url) /\ linked' = linked /\ prepared' = prepared /\ called' = called
    BY <2>2
  <2> QED
    BY <1>1, <2>1, <2>2, <2>3, <2>4, PressOK
<1>5. RecordsOK' /\ DueOK'
  BY <1>1 DEF RecordsOK, DueOK
<1> QED
  BY <1>1, <1>2, <1>3, <1>4, <1>5, Kept

LEMMA StartFacts ==
    ASSUME TypeOK, NEW f \in Flow, NEW u \in User, NEW from \in User \cup {NoUser},
           NEW url \in Instance \cup {NoURL}, Start(f, u, from, url)
    PROVE  /\ wizard' \in [Flow -> [User -> State]] /\ starts' \in Nat
           /\ wizard'[f][u] = Started(f, from, url)
           /\ \A g \in Flow, v \in User : g # f \/ v # u => wizard'[g][v] = wizard[g][v]
<1> DEFINE st == Started(f, from, url)
<1>1. st \in State
  BY StartedIs
<1>2. wizard \in [Flow -> [User -> State]] /\ starts \in Nat
  BY DEF TypeOK
<1>3. wizard' = [wizard EXCEPT ![f][u] = st] /\ starts' = starts + 1
  BY DEF Start
<1> HIDE DEF st
<1> QED
  BY <1>1, <1>2, <1>3 DEF st

LEMMA StartOK ==
    ASSUME TypeOK, NEW f \in Flow, NEW u \in User, NEW from \in User \cup {NoUser},
           NEW url \in Instance \cup {NoURL}, Start(f, u, from, url),
           f = "oauth2" => url \in CloudURL /\ from = NoUser
    PROVE  WizardOK(f, u)'
<1>1. PICK st : st = wizard'[f][u]
  OBVIOUS
<1>2. st.step = FirstStep(f) /\ st.from = from /\ st.url = url
  BY <1>1, StartFacts, StartedIs
<1>3. FirstStep(f) = (IF f = "setup" THEN "welcome" ELSE "cloud-oauth-configure")
  BY DEF FirstStep
<1>4. Fits(f, st)
  BY <1>2, <1>3 DEF Fits, ServerStep, OAuth2Step, Flow
<1>5. Ready(f, u, st)'
  BY <1>2, <1>3 DEF Ready, ServerStep
<1>6. st.step # "announcement-question"
  BY <1>2, <1>3
<1> QED
  BY <1>1, <1>4, <1>5, <1>6 DEF WizardOK, Ready

\* A wizard is started that nobody delegated.
LEMMA SetupKeeps ==
    ASSUME WInv, NEW u \in User, ExecuteSetup(u) \/ OnInstall(u)
    PROVE  WInv'
<1> USE DEF ExecuteSetup, OnInstall, store, history
<1>1. TypeOK /\ RecordsOK /\ DueOK /\ (\A v \in User : told[v] > 0 => linked # {})
  BY DEF WInv
<1>2. "setup" \in Flow /\ Start("setup", u, NoUser, NoURL)
  BY DEF Flow
<1>3. /\ wizard' \in [Flow -> [User -> State]] /\ starts' \in Nat
      /\ \A g \in Flow, v \in User : g # "setup" \/ v # u => wizard'[g][v] = wizard[g][v]
  BY <1>1, <1>2, StartFacts
<1>4. TypeOK'
  BY <1>1, <1>3 DEF TypeOK
<1>5. WizardOK("setup", u)'
  BY <1>1, <1>2, StartOK
<1>6. RecordsOK' /\ DueOK'
  BY <1>1 DEF RecordsOK, DueOK
<1>7. \A f \in Flow, v \in User : wizard'[f][v] = wizard[f][v] \/ WizardOK(f, v)'
  <2> SUFFICES ASSUME NEW f \in Flow, NEW v \in User, f = "setup", v = u
               PROVE  WizardOK(f, v)'
    BY <1>3
  <2> QED
    BY <1>5
<1> QED
  BY <1>1, <1>4, <1>6, <1>7, Kept

LEMMA DelegateKeeps ==
    ASSUME WInv, NEW u \in User, NEW aider \in User, SubmitDelegateSelection(u, aider)
    PROVE  WInv'
<1> USE DEF SubmitDelegateSelection, store
<1> DEFINE url == wizard["setup"][u].url
<1>1. /\ TypeOK /\ RecordsOK /\ DueOK /\ (\A v \in User : told[v] > 0 => linked # {})
      /\ "setup" \in Flow
  BY DEF WInv, Flow
<1>2. url \in Instance \cup {NoURL} /\ Press("setup", u, "delegated", url)
  BY <1>1, Types
<1> HIDE DEF url
<1>3. /\ "delegated" \in Target /\ Last("delegated") = "delegated"
  BY NextOfIs, LastIs DEF Target, Step
<1>4. /\ click' \in ClickType /\ \A v \in User \ {u} : click'[v] = click[v]
  BY <1>1, <1>2, <1>3, Pressed
<1>5. /\ wizard' \in [Flow -> [User -> State]] /\ starts' \in Nat
      /\ \A g \in Flow, v \in User : g # "setup" \/ v # aider => wizard'[g][v] = wizard[g][v]
  BY <1>1, StartFacts
<1>6. TypeOK'
  <2>1. asked' \in [User -> Nat]
    BY <1>1 DEF TypeOK
  <2> QED
    BY <1>1, <1>4, <1>5, <2>1 DEF TypeOK, ClickType
<1>7. WizardOK("setup", aider)'
  BY <1>1, StartOK
<1>8. ClickOK(u)'
  <2>1. PICK w : w = url
    OBVIOUS
  <2> QED
    BY <1>1, <1>2, <1>3, <2>1, PressOK DEF ServerStep
<1>9. RecordsOK' /\ DueOK'
  BY <1>1 DEF RecordsOK, DueOK
<1>10. \A f \in Flow, v \in User : wizard'[f][v] = wizard[f][v] \/ WizardOK(f, v)'
  <2> SUFFICES ASSUME NEW f \in Flow, NEW v \in User, f = "setup", v = aider
               PROVE  WizardOK(f, v)'
    BY <1>5
  <2> QED
    BY <1>7
<1> QED
  BY <1>1, <1>4, <1>6, <1>8, <1>9, <1>10, Kept

RecordType == [Instance -> {"none", "server", "inactive", "cloud", "oauth", "configured"}]

\* A record that is written may replace any other.
LEMMA RecordWritten ==
    ASSUME TypeOK, RecordsOK, NEW i \in Instance,
           NEW type \in {"none", "server", "inactive", "cloud", "oauth", "configured"},
           records' = [records EXCEPT ![i] = type],
           type \in {"oauth", "configured"} => i \in CloudURL,
           \A j \in Instance : acting'[j] = acting[j] \/ (j = i /\ acting'[i] # NoUser),
           type = "inactive" => acting'[i] # NoUser
    PROVE  records' \in RecordType /\ RecordsOK'
<1>1. /\ records' \in RecordType /\ records'[i] = type
      /\ \A j \in Instance \ {i} : records'[j] = records[j]
  BY DEF TypeOK, RecordType
<1>2. ASSUME NEW j \in Instance
      PROVE  /\ records'[j] \in {"oauth", "configured"} => j \in CloudURL
             /\ records'[j] = "inactive" => acting'[j] # NoUser
  <2>1. CASE j = i
    BY <1>1, <2>1
  <2>2. CASE j # i
    BY <1>1, <2>2 DEF RecordsOK
  <2> QED
    BY <2>1, <2>2
<1> QED
  BY <1>1, <1>2 DEF RecordsOK

\* A dialog of the wizard, which installs or configures an instance
LEMMA DialogOK ==
    ASSUME WInv, NEW f \in Flow, NEW u \in User, NEW to \in Step, NEW i \in Instance,
           Press(f, u, to, i), UNCHANGED <<wizard, due, acting, connected, count, asked, told,
                                           linked, called>>,
           records' \in RecordType, RecordsOK', listed' \subseteq Instance,
           prepared' \subseteq Instance, prepared \subseteq prepared',
           ClickOK(u)'
    PROVE  WInv'
<1>1. TypeOK /\ DueOK /\ (\A v \in User : told[v] > 0 => linked # {}) /\ to \in Target
  BY DEF WInv, Target
<1>2. click' \in ClickType /\ \A v \in User \ {u} : click'[v] = click[v]
  BY <1>1, Pressed
<1>3. TypeOK'
  BY <1>1, <1>2 DEF TypeOK, ClickType, RecordType, count
<1>4. DueOK'
  BY <1>1 DEF DueOK
<1> QED
  BY <1>1, <1>2, <1>3, <1>4, Kept

LEMMA InitCreateKeeps ==
    ASSUME WInv, NEW u \in User, NEW i \in Instance, InitCreateCloudOAuthInstance(u, i)
    PROVE  WInv'
<1> USE DEF InitCreateCloudOAuthInstance, Install, history
<1>1. TypeOK /\ RecordsOK /\ "setup" \in Flow
  BY DEF WInv, Flow
<1>2. /\ "cloud-oauth-configure" \in Step /\ "cloud-oauth-configure" \in Target
      /\ Last("cloud-oauth-configure") = "cloud-oauth-configure"
  BY NextOfIs, LastIs DEF Target, Step, OAuth2Step
<1>3. records' \in RecordType /\ RecordsOK'
  BY <1>1, RecordWritten
<1>4. listed' \subseteq Instance /\ prepared' \subseteq Instance
  BY <1>1 DEF TypeOK
<1>5. ClickOK(u)'
  BY <1>1, <1>2, PressOK DEF ServerStep
<1> QED
  BY <1>1, <1>2, <1>3, <1>4, <1>5, DialogOK

LEMMA SubmitServerKeeps ==
    ASSUME WInv, NEW u \in User, NEW i \in Instance, SubmitCreateServerInstance(u, i)
    PROVE  WInv'
<1> USE DEF SubmitCreateServerInstance, Install
<1>1. TypeOK /\ RecordsOK /\ "setup" \in Flow
  BY DEF WInv, Flow
<1>2. /\ "server-add-link" \in Step /\ "server-add-link" \in Target
      /\ Last("server-add-link") = "server-add-link"
  BY NextOfIs, LastIs DEF Target, Step, ServerStep
<1>3. records' \in RecordType /\ RecordsOK'
  BY <1>1, RecordWritten
<1>4. /\ listed' \subseteq Instance /\ prepared' \subseteq Instance /\ prepared \subseteq prepared'
      /\ i \in prepared'
  BY <1>1 DEF TypeOK
<1>5. ClickOK(u)'
  BY <1>1, <1>2, <1>4, PressOK
<1> QED
  BY <1>1, <1>2, <1>3, <1>4, <1>5, DialogOK

LEMMA SubmitOAuthKeeps ==
    ASSUME WInv, NEW f \in Flow, NEW u \in User, NEW i \in Instance,
           SubmitCreateCloudOAuthInstance(f, u, i)
    PROVE  WInv'
<1> USE DEF SubmitCreateCloudOAuthInstance
<1>1. TypeOK /\ RecordsOK
  BY DEF WInv
<1>2. /\ "installed-app" \in Step /\ "installed-app" \in Target /\ "installed-app" \in OAuth2Step
      /\ Last("installed-app") = "installed-app" /\ i \in CloudURL
  BY <1>1, LastIs DEF Target, Step, OAuth2Step, RecordsOK
<1>3. records' \in RecordType /\ RecordsOK'
  BY <1>1, <1>2, RecordWritten
<1>4. /\ listed' \subseteq Instance /\ prepared' \subseteq Instance /\ prepared \subseteq prepared'
      /\ i \in prepared'
  BY <1>1 DEF TypeOK
<1>5. ClickOK(u)'
  BY <1>1, <1>2, <1>4, PressOK DEF ServerStep
<1> QED
  BY <1>1, <1>2, <1>3, <1>4, <1>5, DialogOK

LEMMA InstallCloudOAuthKeeps ==
    ASSUME WInv, NEW u \in User, NEW i \in Instance, ExecuteInstanceInstallCloudOAuth(u, i)
    PROVE  WInv'
<1> USE DEF ExecuteInstanceInstallCloudOAuth, Install, history, Call
<1>1. /\ TypeOK /\ RecordsOK /\ DueOK /\ (\A v \in User : told[v] > 0 => linked # {})
      /\ "oauth2" \in Flow
  BY DEF WInv, Flow
<1>2. records' \in RecordType /\ RecordsOK'
  BY <1>1, RecordWritten
<1>3. listed' \subseteq Instance /\ calls' \in Nat
  BY <1>1 DEF TypeOK
<1>4. DueOK'
  BY <1>1 DEF DueOK
<1>5. CASE Start("oauth2", u, NoUser, i)
  <2>1. /\ wizard' \in [Flow -> [User -> State]] /\ starts' \in Nat
        /\ \A g \in Flow, v \in User : g # "oauth2" \/ v # u => wizard'[g][v] = wizard[g][v]
    BY <1>1, <1>5, StartFacts
  <2>2. TypeOK'
    BY <1>1, <1>2, <1>3, <2>1 DEF TypeOK, RecordType
  <2>3. WizardOK("oauth2", u)'
    BY <1>1, <1>5, StartOK
  <2>4. \A f \in Flow, v \in User : wizard'[f][v] = wizard[f][v] \/ WizardOK(f, v)'
    <3> SUFFICES ASSUME NEW f \in Flow, NEW v \in User, f = "oauth2", v = u
                 PROVE  WizardOK(f, v)'
      BY <2>1
    <3> QED
      BY <2>3
  <2> QED
    BY <1>1, <1>2, <1>4, <2>2, <2>4, Kept
<1>6. CASE UNCHANGED <<wizard, starts>>
  <2>1. TypeOK'
    BY <1>1, <1>2, <1>3, <1>6 DEF TypeOK, RecordType
  <2> QED
    BY <1>2, <1>4, <1>6, <2>1, OnlyStore
<1> QED
  BY <1>5, <1>6

-----------------------------------------------------------------------------
(* Commands and callbacks                                                  *)

LEMMA InstallServerKeeps ==
    ASSUME WInv, NEW u \in User, NEW i \in Instance, ExecuteInstanceInstallServer(u, i)
    PROVE  WInv'
<1> USE DEF ExecuteInstanceInstallServer, Install, Call
<1>1. TypeOK /\ RecordsOK /\ DueOK
  BY DEF WInv
<1>2. records' \in RecordType /\ RecordsOK'
  BY <1>1, RecordWritten
<1>3. listed' \subseteq Instance /\ prepared' \subseteq Instance /\ calls' \in Nat
  BY <1>1 DEF TypeOK
<1>4. TypeOK' /\ DueOK'
  BY <1>1, <1>2, <1>3 DEF TypeOK, RecordType, DueOK
<1> QED
  BY <1>2, <1>4, OnlyStore

LEMMA InstallCloudKeeps ==
    ASSUME WInv, NEW u \in User, NEW i \in Instance, ExecuteInstanceInstallCloud(u, i)
    PROVE  WInv'
<1> USE DEF ExecuteInstanceInstallCloud, Call, history
<1>1. TypeOK /\ RecordsOK /\ DueOK
  BY DEF WInv
<1>2. /\ acting' \in [Instance -> User \cup {NoUser}] /\ acting'[i] = u
      /\ \A j \in Instance \ {i} : acting'[j] = acting[j]
  BY <1>1 DEF TypeOK
<1>3. u # NoUser
  BY WizardAssumption
<1>4. records' \in RecordType /\ RecordsOK'
  BY <1>1, <1>2, <1>3, RecordWritten
<1>5. TypeOK' /\ DueOK'
  BY <1>1, <1>2, <1>4 DEF TypeOK, RecordType, DueOK
<1> QED
  BY <1>4, <1>5, OnlyStore

LEMMA ACInstalledKeeps ==
    ASSUME WInv, NEW i \in Instance, HttpACInstalled(i)
    PROVE  WInv'
<1> USE DEF HttpACInstalled, Install, Call
<1>1. TypeOK /\ RecordsOK /\ DueOK
  BY DEF WInv
<1>2. acting[i] \in User
  BY <1>1 DEF TypeOK, RecordsOK
<1>3. records' \in RecordType /\ RecordsOK'
  BY <1>1, RecordWritten
<1>4. TypeOK'
  BY <1>1, <1>2, <1>3 DEF TypeOK, RecordType
<1>5. DueOK'
  BY <1>1 DEF DueOK
<1> QED
  BY <1>3, <1>4, <1>5, OnlyStore

LEMMA ConnectKeeps ==
    ASSUME WInv, NEW u \in User, NEW i \in Instance, ConnectUser(u, i) \/ DisconnectUser(u, i)
    PROVE  WInv'
<1> USE DEF ConnectUser, DisconnectUser, Call, history
<1>1. TypeOK /\ RecordsOK /\ DueOK
  BY DEF WInv
<1>2. connected' \in [User -> SUBSET Instance] /\ calls' \in Nat
  BY <1>1 DEF TypeOK
<1>3. RecordsOK'
  BY <1>1 DEF RecordsOK
<1>4. CASE ConnectUser(u, i)
  <2>1. TypeOK'
    BY <1>1, <1>2, <1>4 DEF TypeOK
  <2>2. DueOK'
    BY <1>1, <1>4 DEF DueOK
  <2> QED
    BY <1>3, <1>4, <2>1, <2>2, OnlyStore
<1>5. CASE DisconnectUser(u, i)
  <2>1. TypeOK' /\ DueOK'
    BY <1>1, <1>2, <1>5 DEF TypeOK, DueOK
  <2> QED
    BY <1>3, <1>5, <2>1, OnlyStore
<1> QED
  BY <1>4, <1>5

LEMMA UninstallKeeps ==
    ASSUME WInv, NEW i \in Instance, ExecuteInstanceUninstall(i)
    PROVE  WInv'
<1> USE DEF ExecuteInstanceUninstall, Call, history
<1>1. TypeOK /\ RecordsOK /\ DueOK
  BY DEF WInv
<1>2. records' \in RecordType /\ RecordsOK'
  BY <1>1, RecordWritten
<1>3. connected' \in [User -> SUBSET Instance] /\ calls' \in Nat /\ listed' \subseteq Instance
  BY <1>1 DEF TypeOK
<1>4. TypeOK' /\ DueOK'
  BY <1>1, <1>2, <1>3 DEF TypeOK, RecordType, DueOK
<1> QED
  BY <1>2, <1>4, OnlyStore

-----------------------------------------------------------------------------
(* The library                                                             *)

\* A click that comes to nothing, a move that fails, and no step
LEMMA NothingHappens ==
    ASSUME WInv,
           \/ \E u \in User : Drop(u)
           \/ \E u \in User, to \in {"connected", "installed-app"} : GoFails(u, to)
           \/ UNCHANGED vars
    PROVE  WInv'
<1> USE DEF store, history, count
<1>1. TypeOK /\ RecordsOK /\ DueOK /\ (\A v \in User : told[v] > 0 => linked # {})
  BY DEF WInv
<1>2. ASSUME NEW u \in User, Drop(u) PROVE WInv'
  <2>1. click' \in ClickType /\ \A v \in User : click'[v] \in {click[v], Idle}
    BY <1>1, <1>2 DEF Drop, TypeOK, ClickType
  <2>2. TypeOK' /\ RecordsOK' /\ DueOK'
    BY <1>1, <1>2, <2>1 DEF Drop, TypeOK, ClickType, RecordsOK, DueOK
  <2> QED
    BY <1>1, <1>2, <2>1, <2>2, Kept DEF Drop
<1>3. ASSUME NEW u \in User, NEW to \in {"connected", "installed-app"}, GoFails(u, to)
      PROVE  WInv'
  <2>1. TypeOK' /\ RecordsOK' /\ DueOK'
    BY <1>1, <1>3 DEF GoFails, TypeOK, RecordsOK, DueOK
  <2> QED
    BY <1>3, <2>1, OnlyStore DEF GoFails
<1>4. CASE UNCHANGED vars
  <2>1. TypeOK' /\ RecordsOK' /\ DueOK'
    BY <1>1, <1>4 DEF vars, TypeOK, RecordsOK, DueOK
  <2> QED
    BY <1>4, <2>1, OnlyStore DEF vars
<1> QED
  BY <1>2, <1>3, <1>4

\* A wizard is moved for a user who has connected or whose instance is called
\* back for, wherever it is.
LEMMA GoKeeps ==
    ASSUME WInv, NEW u \in User, NEW to \in {"connected", "installed-app"}, Go(u, to)
    PROVE  WInv'
<1> USE DEF Go, store, count, history
<1>1. /\ TypeOK /\ RecordsOK /\ DueOK /\ (\A v \in User : told[v] > 0 => linked # {})
      /\ "setup" \in Flow /\ to \in Target
  BY NextOfIs DEF WInv, Flow, Target, Step, OAuth2Step
<1>2. PICK st : st = Moved(wizard["setup"][u], to)
  OBVIOUS
<1>3. /\ st \in State /\ st.url \in Instance \cup {NoURL}
      /\ st.step = (IF to = "connected" THEN "announcement-question" ELSE "installed-app")
  <2>1. wizard["setup"][u] \in State
    BY <1>1, Types
  <2>2. PICK last : last = Last(to)
    OBVIOUS
  <2>3. last = (IF to = "connected" THEN "announcement-question" ELSE "installed-app")
    BY <2>2, LastIs
  <2>4. st \in State /\ st.step = last
    BY <1>1, <1>2, <2>1, <2>2, <2>3, MovedIs
  <2>5. st.url \in Instance \cup {NoURL}
    BY <2>4 DEF State
  <2> QED
    BY <2>3, <2>4, <2>5
<1>4. /\ wizard' \in [Flow -> [User -> State]] /\ wizard'["setup"][u] = st
      /\ \A g \in Flow, v \in User : g # "setup" \/ v # u => wizard'[g][v] = wizard[g][v]
  <2>1. wizard \in [Flow -> [User -> State]]
    BY <1>1 DEF TypeOK
  <2>2. wizard' = [wizard EXCEPT !["setup"][u] = st]
    BY <1>1, <1>2, <2>1
  <2> QED
    BY <1>1, <1>3, <2>1, <2>2
<1>5. TypeOK' /\ RecordsOK' /\ DueOK'
  BY <1>1, <1>4 DEF TypeOK, RecordsOK, DueOK
<1>6. WizardOK("setup", u)'
  <2>1. Fits("setup", st)
    BY <1>3 DEF Fits, ServerStep
  <2>2. st.step = "announcement-question" => u \in linked
    BY <1>1, <1>3 DEF DueOK
  <2>3. st.step \in ServerStep \cup {"installed-app", "webhook", "connect"} => u \in called
    BY <1>1, <1>3 DEF DueOK, ServerStep
  <2> QED
    BY <1>4, <2>1, <2>2, <2>3 DEF WizardOK, Ready
<1>7. \A f \in Flow, v \in User : wizard'[f][v] = wizard[f][v] \/ WizardOK(f, v)'
  <2> SUFFICES ASSUME NEW f \in Flow, NEW v \in User, f = "setup", v = u
               PROVE  WizardOK(f, v)'
    BY <1>4
  <2> QED
    BY <1>6
<1> QED
  BY <1>1, <1>5, <1>7, Kept

\* What is stored when a click's step is reached, and whom it tells
LEMMA LandFacts ==
    ASSUME WInv, NEW u \in User, Land(u),
           NEW d, d = click[u].state.from, NEW m, m = Moved(click[u].state, click[u].to),
           NEW tells \in BOOLEAN, tells <=> (Last(click[u].to) = "done" /\ d # NoUser)
    PROVE  /\ click[u] # Idle /\ click' = [click EXCEPT ![u] = Idle]
           /\ tells => d \in User /\ click[u].flow = "setup" /\ linked # {}
           /\ told' \in [User -> Nat]
           /\ tells => told'[d] = told[d] + 1
           /\ \A v \in User : (tells /\ v = d) \/ told'[v] = told[v]
           /\ wizard' \in [Flow -> [User -> State]]
           /\ wizard'[click[u].flow][u] = m
           /\ \A f \in Flow, v \in User :
                 \/ f = click[u].flow /\ v = u
                 \/ /\ f = "setup" /\ v = d /\ tells
                    /\ wizard'[f][v] = Moved(wizard[f][v], "delegate-complete")
                 \/ wizard'[f][v] = wizard[f][v]
<1>1. TypeOK /\ ClickOK(u) /\ click[u] # Idle /\ click' = [click EXCEPT ![u] = Idle]
  BY DEF WInv, Land
<1>2. /\ click[u].flow \in Flow /\ click[u].to \in Target /\ click[u].state \in State
      /\ d \in User \cup {NoUser}
  BY <1>1, Types, "setup" \in Flow DEF Flow
<1>3. tells => d \in User /\ click[u].flow = "setup" /\ linked # {}
  BY <1>1, <1>2 DEF ClickOK, Flow
<1>4. told' = IF tells THEN [told EXCEPT ![d] = @ + 1] ELSE told
  BY DEF Land
<1>5. /\ told' \in [User -> Nat]
      /\ tells => told'[d] = told[d] + 1
      /\ \A v \in User : (tells /\ v = d) \/ told'[v] = told[v]
  BY <1>1, <1>3, <1>4 DEF TypeOK
<1>6. m \in State
  BY <1>2, MovedIs
<1>7. PICK flow : flow = click[u].flow
  OBVIOUS
<1>8. PICK w : w = [f \in Flow |-> [v \in User |-> Moved(wizard[f][v], "delegate-complete")]]
  OBVIOUS
<1>9. \A f \in Flow, v \in User :
         w[f][v] = Moved(wizard[f][v], "delegate-complete") /\ w[f][v] \in State
  BY <1>1, <1>8, Types, MovedIs, NextOfIs DEF Target
<1>10. wizard' = [f \in Flow |-> [v \in User |->
              IF f = flow /\ v = u THEN m
              ELSE IF f = "setup" /\ tells /\ v = d THEN w[f][v]
              ELSE wizard[f][v]]]
  <2>1. wizard' = [f \in Flow |-> [v \in User |->
              IF f = flow /\ v = u THEN m
              ELSE IF f = "setup" /\ tells /\ v = d
                   THEN Moved(wizard[f][v], "delegate-complete")
              ELSE wizard[f][v]]]
    BY <1>7 DEF Land
  <2> QED
    BY <1>9, <2>1
<1>11. \A f \in Flow, v \in User :
          wizard'[f][v] = IF f = flow /\ v = u THEN m
                          ELSE IF f = "setup" /\ tells /\ v = d THEN w[f][v]
                          ELSE wizard[f][v]
  BY <1>10
<1>12. wizard' \in [Flow -> [User -> State]]
  <2>1. \A f \in Flow, v \in User : wizard[f][v] \in State
    BY <1>1, Types
  <2> QED
    BY <1>6, <1>9, <1>10, <2>1
<1> QED
  BY <1>1, <1>2, <1>3, <1>5, <1>7, <1>9, <1>11, <1>12

LEMMA LandKeeps ==
    ASSUME WInv, NEW u \in User, Land(u)
    PROVE  WInv'
<1>1. PICK d : d = click[u].state.from
  OBVIOUS
<1>2. PICK m : m = Moved(click[u].state, click[u].to)
  OBVIOUS
<1>3. PICK tells \in BOOLEAN : tells <=> (Last(click[u].to) = "done" /\ d # NoUser)
  OBVIOUS
<1>4. PICK flow : flow = click[u].flow
  OBVIOUS
<1>5. /\ click[u] # Idle /\ click' = [click EXCEPT ![u] = Idle]
      /\ tells => d \in User /\ flow = "setup" /\ linked # {}
      /\ told' \in [User -> Nat]
      /\ tells => told'[d] = told[d] + 1
      /\ \A v \in User : (tells /\ v = d) \/ told'[v] = told[v]
      /\ wizard' \in [Flow -> [User -> State]]
      /\ wizard'[flow][u] = m
      /\ \A f \in Flow, v \in User :
            \/ f = flow /\ v = u
            \/ /\ f = "setup" /\ v = d /\ tells
               /\ wizard'[f][v] = Moved(wizard[f][v], "delegate-complete")
            \/ wizard'[f][v] = wizard[f][v]
  BY <1>1, <1>2, <1>3, <1>4, LandFacts
<1>6. /\ TypeOK /\ RecordsOK /\ DueOK /\ (\A v \in User : told[v] > 0 => linked # {})
      /\ ClickOK(u) /\ (\A v \in User : told[v] \in Nat)
  BY Types, "setup" \in Flow DEF WInv, Flow
<1>7. UNCHANGED <<due, store, count, asked, linked, prepared, called>>
  BY DEF Land
<1>8. click' \in ClickType /\ \A v \in User : click'[v] = click[v] \/ click'[v] = Idle
  BY <1>5, <1>6 DEF TypeOK, ClickType
<1>9. TypeOK' /\ RecordsOK' /\ DueOK'
  BY <1>5, <1>6, <1>7, <1>8 DEF TypeOK, ClickType, RecordsOK, DueOK, store, count
<1>10. /\ \A v \in User : told[v] > 0 => told'[v] > 0
       /\ \A v \in User : told'[v] > 0 => linked' # {}
  BY <1>5, <1>6, <1>7
<1>11. ASSUME NEW f \in Flow, NEW v \in User, f = flow, v = u
       PROVE  WizardOK(f, v)'
  <2>1. /\ click[u].to \in Target /\ click[u].state \in State
    BY <1>5, <1>6, Types, "setup" \in Flow DEF Flow
  <2>2. PICK last : last = Last(click[u].to)
    OBVIOUS
  <2>3. Fits(flow, m) /\ Ready(flow, u, m) /\ last # "announcement-question"
    BY <1>2, <1>4, <1>5, <1>6, <2>2 DEF ClickOK
  <2>4. m.step # "announcement-question"
    BY <1>2, <2>1, <2>2, <2>3, MovedIs, NoStateIs
  <2> QED
    BY <1>5, <1>7, <1>11, <2>3, <2>4 DEF WizardOK, Ready
<1>12. ASSUME NEW f \in Flow, NEW v \in User, f = "setup", v = d, tells,
              wizard'[f][v] = Moved(wizard[f][v], "delegate-complete")
       PROVE  WizardOK(f, v)'
  <2>1. "delegate-complete" \in Target /\ wizard[f][v] \in State
    BY <1>6, Types, NextOfIs DEF Target
  <2>2. PICK st : st = Moved(wizard[f][v], "delegate-complete")
    OBVIOUS
  <2>3. st.step = "announcement-question"
    BY <2>1, <2>2, MovedIs, LastIs
  <2>4. Fits(f, st) /\ Ready(f, v, st)'
    BY <1>12, <2>3 DEF Fits, Ready, ServerStep
  <2>5. told'[v] > 0
    BY <1>5, <1>6, <1>12
  <2> QED
    BY <1>12, <2>2, <2>4, <2>5 DEF WizardOK, Ready
<1>13. \A f \in Flow, v \in User : wizard'[f][v] = wizard[f][v] \/ WizardOK(f, v)'
  BY <1>5, <1>11, <1>12
<1> QED
  BY <1>6, <1>7, <1>8, <1>9, <1>10, <1>13, Kept

-----------------------------------------------------------------------------
(* What a wizard remembers, and what success and the webhook need          *)

LEMMA NextWInv == WInv /\ [Next]_vars => WInv'
<1> SUFFICES ASSUME WInv, [Next]_vars PROVE WInv'
  OBVIOUS
<1>1. ASSUME NEW u \in User, Land(u) \/ Drop(u) \/ ExecuteSetup(u) \/ OnInstall(u)
      PROVE  WInv'
  BY <1>1, LandKeeps, NothingHappens, SetupKeeps
<1>2. ASSUME NEW f \in Flow, NEW u \in User, NEW to \in Target, Click(f, u, to) PROVE WInv'
  BY <1>2, ClickKeeps
<1>3. ASSUME NEW u \in User, NEW aider \in User, SubmitDelegateSelection(u, aider) PROVE WInv'
  BY <1>3, DelegateKeeps
<1>4. ASSUME NEW u \in User, NEW i \in Instance,
             \/ InitCreateCloudOAuthInstance(u, i)
             \/ SubmitCreateServerInstance(u, i)
             \/ \E f \in Flow : SubmitCreateCloudOAuthInstance(f, u, i)
      PROVE  WInv'
  BY <1>4, InitCreateKeeps, SubmitServerKeeps, SubmitOAuthKeeps
<1>5. ASSUME NEW u \in User, NEW i \in Instance,
             \/ ExecuteInstanceInstallCloudOAuth(u, i)
             \/ ExecuteInstanceInstallServer(u, i)
             \/ ExecuteInstanceInstallCloud(u, i)
             \/ ConnectUser(u, i)
             \/ DisconnectUser(u, i)
      PROVE  WInv'
  BY <1>5, InstallCloudOAuthKeeps, InstallServerKeeps, InstallCloudKeeps, ConnectKeeps
<1>6. ASSUME NEW i \in Instance, HttpACInstalled(i) \/ ExecuteInstanceUninstall(i) PROVE WInv'
  BY <1>6, ACInstalledKeeps, UninstallKeeps
<1>7. ASSUME NEW u \in User, NEW to \in {"connected", "installed-app"}, Go(u, to) \/ GoFails(u, to)
      PROVE  WInv'
  BY <1>7, GoKeeps, NothingHappens
<1>8. CASE UNCHANGED vars
  BY <1>8, NothingHappens
<1> QED
  BY <1>1, <1>2, <1>3, <1>4, <1>5, <1>6, <1>7, <1>8 DEF Next

LEMMA AlwaysWInv == Spec => []WInv
BY InitWInv, NextWInv, PTL DEF Spec

(* A wizard's step and what it remembers fit together, in the stored state *)
(* and in what a click is about to store, although the click stores a      *)
(* state that commands, callbacks and other users' clicks may have         *)
(* replaced since it was read; only Cloud instances have OAuth clients,    *)
(* and an inactive one has the user who installed it (setup_flow.go,       *)
(* instances.go).                                                          *)
THEOREM WizardConsistency == Spec => []IInv
<1>1. WInv => IInv
  <2> SUFFICES ASSUME WInv PROVE IInv
    OBVIOUS
  <2>1. TypeOK /\ RecordsOK
    BY DEF WInv
  <2>2. \A f \in Flow, u \in User : Fits(f, wizard[f][u])
    BY DEF WInv, WizardOK
  <2>3. \A u \in User : click[u] # Idle =>
          /\ click[u].flow = "oauth2" => click[u].state.from = NoUser
          /\ Fits(click[u].flow, Moved(click[u].state, click[u].to))
    BY DEF WInv, ClickOK
  <2> QED
    BY <2>1, <2>2, <2>3 DEF IInv, RecordsOK
<1> QED
  BY <1>1, AlwaysWInv, PTL

(* The success message reaches a user only after he has connected to Jira, *)
(* or has been told that the wizard he delegated is completed, which in    *)
(* turn happens only after somebody has connected (stepDone, connectUser). *)
THEOREM SuccessAfterConnection == Spec => []SuccessNeedsConnection
<1>1. WInv => SuccessNeedsConnection
  BY DEF WInv, WizardOK, SuccessNeedsConnection
<1> QED
  BY <1>1, AlwaysWInv, PTL

(* A wizard is at the webhook or the connection of an instance only after  *)
(* that server was installed or that OAuth client configured, but for the  *)
(* users whom the callback of a cloud instance has moved there             *)
(* (submitCreateServerInstance, httpACInstalled).                          *)
THEOREM AlwaysInstalledFirst == Spec => []InstalledFirst
<1>1. WInv => InstalledFirst
  BY DEF WInv, WizardOK, Ready, InstalledFirst
<1> QED
  BY <1>1, AlwaysWInv, PTL

-----------------------------------------------------------------------------
(* Who is told that a delegated wizard is completed                        *)

\* Nobody comes to hold a delegation: a wizard keeps its delegator, loses him,
\* or takes that of the click which is stored, and a click has its wizard's.
LEMMA HoldersShrink ==
    ASSUME NEW d \in User,
           \A v \in User :
              \/ wizard'["setup"][v].from \in {wizard["setup"][v].from, NoUser}
              \/ /\ click[v] # Idle /\ click[v].flow = "setup"
                 /\ wizard'["setup"][v].from \in {click[v].state.from, NoUser},
           \A v \in User :
              \/ click'[v] \in {click[v], Idle}
              \/ click'[v].flow # "setup"
              \/ click'[v].state.from = wizard["setup"][v].from
    PROVE  Holders(d)' \subseteq Holders(d)
<1>1. d # NoUser
  BY WizardAssumption
<1>2. SUFFICES ASSUME NEW v \in User, v \in Holders(d)' PROVE v \in Holders(d)
  BY DEF Holders
<1>3. CASE wizard'["setup"][v].from = d
  BY <1>1, <1>3 DEF Holders
<1>4. CASE click'[v] # Idle /\ click'[v].flow = "setup" /\ click'[v].state.from = d
  BY <1>4 DEF Holders
<1> QED
  BY <1>2, <1>3, <1>4 DEF Holders

LEMMA ToldKept ==
    ASSUME ToldInv, UNCHANGED <<asked, told>>, TypeOK,
           \A d \in User : Holders(d)' \subseteq Holders(d)
    PROVE  ToldInv'
<1> SUFFICES ASSUME NEW d \in User
             PROVE  IsFiniteSet(Holders(d))' /\ (told[d] + Cardinality(Holders(d)) <= asked[d])'
  BY DEF ToldInv
<1>1. PICK H : H = Holders(d)
  OBVIOUS
<1>2. PICK G : G = Holders(d)'
  OBVIOUS
<1>3. IsFiniteSet(H) /\ told[d] + Cardinality(H) <= asked[d] /\ G \subseteq H
  BY <1>1, <1>2 DEF ToldInv
<1>4. /\ IsFiniteSet(G) /\ Cardinality(G) <= Cardinality(H)
      /\ Cardinality(G) \in Nat /\ Cardinality(H) \in Nat
  BY <1>3, FS_Subset, FS_CardinalityType
<1>5. told[d] \in Nat /\ asked[d] \in Nat
  BY DEF TypeOK
<1>6. told'[d] + Cardinality(G) <= asked'[d]
  BY <1>3, <1>4, <1>5
<1> QED
  BY <1>2, <1>4, <1>6

LEMMA InitToldInv == Init => ToldInv
<1> SUFFICES ASSUME Init, NEW d \in User
             PROVE  IsFiniteSet(Holders(d)) /\ told[d] + Cardinality(Holders(d)) <= asked[d]
  BY DEF ToldInv
<1>1. d # NoUser
  BY WizardAssumption
<1>2. \A v \in User : wizard["setup"][v].from = NoUser /\ click[v] = Idle
  BY NoStateIs, "setup" \in Flow DEF Init, Flow
<1>3. Holders(d) = {}
  BY <1>1, <1>2 DEF Holders
<1>4. told[d] = 0 /\ asked[d] = 0
  BY DEF Init
<1> QED
  BY <1>3, <1>4, FS_EmptySet

\* Each press keeps the delegator of its wizard.
LEMMA PressedFrom ==
    ASSUME WInv, NEW f \in Flow, NEW u \in User, NEW to \in Target,
           NEW url \in Instance \cup {NoURL}, Press(f, u, to, url)
    PROVE  \A v \in User :
              \/ click'[v] \in {click[v], Idle}
              \/ click'[v].flow # "setup"
              \/ click'[v].state.from = wizard["setup"][v].from
<1>1. TypeOK
  BY DEF WInv
<1>2. /\ click'[u].flow = f /\ click'[u].state.from = wizard[f][u].from
      /\ \A v \in User \ {u} : click'[v] = click[v]
  BY <1>1, Pressed
<1> QED
  BY <1>2

\* A delegation is held by one user more, whom the delegator has asked.
LEMMA DelegateTold ==
    ASSUME WInv, ToldInv, NEW u \in User, NEW aider \in User, SubmitDelegateSelection(u, aider)
    PROVE  ToldInv'
<1>1. TypeOK /\ "setup" \in Flow
  BY DEF WInv, Flow
<1>2. PICK url \in Instance \cup {NoURL} : url = wizard["setup"][u].url
  BY <1>1, Types
<1>3. /\ Press("setup", u, "delegated", url) /\ "delegated" \in Target
      /\ Start("setup", aider, u, NoURL)
  BY <1>2 DEF SubmitDelegateSelection, Target, Step
<1>4. \A v \in User :
          \/ click'[v] \in {click[v], Idle}
          \/ click'[v].flow # "setup"
          \/ click'[v].state.from = wizard["setup"][v].from
  BY <1>1, <1>3, PressedFrom
<1>5. /\ wizard'["setup"][aider].from = u
      /\ \A v \in User \ {aider} : wizard'["setup"][v].from = wizard["setup"][v].from
  BY <1>1, <1>3, StartFacts, StartedIs
<1>6. asked' = [asked EXCEPT ![u] = @ + 1] /\ told' = told
  BY DEF SubmitDelegateSelection
<1> SUFFICES ASSUME NEW d \in User
             PROVE  IsFiniteSet(Holders(d))' /\ (told[d] + Cardinality(Holders(d)) <= asked[d])'
  BY DEF ToldInv
<1>7. PICK H : H = Holders(d)
  OBVIOUS
<1>8. PICK G : G = Holders(d)'
  OBVIOUS
<1>9. IsFiniteSet(H) /\ told[d] + Cardinality(H) <= asked[d] /\ Cardinality(H) \in Nat
  BY <1>7, FS_CardinalityType DEF ToldInv
<1>10. told[d] \in Nat /\ asked[d] \in Nat
  BY <1>1 DEF TypeOK
<1>11. CASE d # u
  <2>1. G \subseteq H
    BY <1>4, <1>5, <1>7, <1>8, <1>11 DEF Holders
  <2>2. IsFiniteSet(G) /\ Cardinality(G) <= Cardinality(H) /\ Cardinality(G) \in Nat
    BY <1>9, <2>1, FS_Subset, FS_CardinalityType
  <2>3. asked'[d] = asked[d]
    BY <1>1, <1>6, <1>11 DEF TypeOK
  <2>4. told'[d] + Cardinality(G) <= asked'[d]
    BY <1>6, <1>9, <1>10, <2>2, <2>3
  <2> QED
    BY <1>8, <2>2, <2>4
<1>12. CASE d = u
  <2>1. G \subseteq H \cup {aider}
    BY <1>4, <1>5, <1>7, <1>8, <1>12 DEF Holders
  <2>2. /\ IsFiniteSet(H \cup {aider}) /\ Cardinality(H \cup {aider}) \in Nat
        /\ Cardinality(H \cup {aider}) <= Cardinality(H) + 1
    BY <1>9, FS_AddElement, FS_CardinalityType
  <2>3. IsFiniteSet(G) /\ Cardinality(G) <= Cardinality(H \cup {aider}) /\ Cardinality(G) \in Nat
    BY <2>1, <2>2, FS_Subset, FS_CardinalityType
  <2>4. asked'[d] = asked[d] + 1
    BY <1>1, <1>6, <1>12 DEF TypeOK
  <2>5. told'[d] + Cardinality(G) <= asked'[d]
    BY <1>6, <1>9, <1>10, <2>2, <2>3, <2>4
  <2> QED
    BY <1>8, <2>3, <2>5
<1> QED
  BY <1>11, <1>12

\* Who tells held the delegation, and holds it no more.
LEMMA LandTold ==
    ASSUME WInv, ToldInv, NEW u \in User, Land(u)
    PROVE  ToldInv'
<1>1. PICK d : d = click[u].state.from
  OBVIOUS
<1>2. PICK m : m = Moved(click[u].state, click[u].to)
  OBVIOUS
<1>3. PICK tells \in BOOLEAN : tells <=> (Last(click[u].to) = "done" /\ d # NoUser)
  OBVIOUS
<1>4. PICK flow : flow = click[u].flow
  OBVIOUS
<1>5. /\ click[u] # Idle /\ click' = [click EXCEPT ![u] = Idle]
      /\ tells => d \in User /\ flow = "setup" /\ linked # {}
      /\ told' \in [User -> Nat]
      /\ tells => told'[d] = told[d] + 1
      /\ \A v \in User : (tells /\ v = d) \/ told'[v] = told[v]
      /\ wizard'[flow][u] = m
      /\ \A f \in Flow, v \in User :
            \/ f = flow /\ v = u
            \/ /\ f = "setup" /\ v = d /\ tells
               /\ wizard'[f][v] = Moved(wizard[f][v], "delegate-complete")
            \/ wizard'[f][v] = wizard[f][v]
  BY <1>1, <1>2, <1>3, <1>4, LandFacts
<1>6. TypeOK /\ "setup" \in Flow /\ asked' = asked
  BY DEF WInv, Flow, Land
<1>7. click'[u] = Idle /\ \A v \in User : click'[v] \in {click[v], Idle}
  BY <1>5, <1>6 DEF TypeOK
<1>8. /\ click[u].to \in Target /\ click[u].state \in State /\ m.from \in {d, NoUser}
      /\ tells => m = NoState
  <2>1. click[u].to \in Target /\ click[u].state \in State
    BY <1>5, <1>6, Types
  <2> QED
    BY <1>1, <1>2, <1>3, <2>1, MovedIs
<1>9. \A v \in User : v # u \/ flow # "setup" =>
          wizard'["setup"][v].from \in {wizard["setup"][v].from, NoUser}
  <2> SUFFICES ASSUME NEW v \in User, v # u \/ flow # "setup"
               PROVE  wizard'["setup"][v].from \in {wizard["setup"][v].from, NoUser}
    OBVIOUS
  <2>1. "delegate-complete" \in Target /\ wizard["setup"][v] \in State
    BY <1>6, Types, NextOfIs DEF Target
  <2>2. PICK w : w = Moved(wizard["setup"][v], "delegate-complete")
    OBVIOUS
  <2>3. w.from \in {wizard["setup"][v].from, NoUser}
    BY <2>1, <2>2, MovedIs
  <2> QED
    BY <1>5, <1>6, <2>2, <2>3
<1>10. \A v \in User :
          \/ wizard'["setup"][v].from \in {wizard["setup"][v].from, NoUser}
          \/ /\ click[v] # Idle /\ click[v].flow = "setup"
             /\ wizard'["setup"][v].from \in {click[v].state.from, NoUser}
  BY <1>1, <1>4, <1>5, <1>8, <1>9
<1>11. \A e \in User : Holders(e)' \subseteq Holders(e)
  BY <1>7, <1>10, HoldersShrink
<1>12. CASE ~tells
  <2>1. told' = told
    BY <1>5, <1>6, <1>12 DEF TypeOK
  <2> QED
    BY <1>6, <1>11, <2>1, ToldKept
<1>13. CASE tells
  <2> SUFFICES ASSUME NEW e \in User
               PROVE  IsFiniteSet(Holders(e))'
                      /\ (told[e] + Cardinality(Holders(e)) <= asked[e])'
    BY DEF ToldInv
  <2>1. PICK H : H = Holders(e)
    OBVIOUS
  <2>2. PICK G : G = Holders(e)'
    OBVIOUS
  <2>3. IsFiniteSet(H) /\ told[e] + Cardinality(H) <= asked[e] /\ G \subseteq H
    BY <1>11, <2>1, <2>2 DEF ToldInv
  <2>4. told[e] \in Nat /\ asked[e] \in Nat /\ Cardinality(H) \in Nat
    BY <1>6, <2>3, FS_CardinalityType DEF TypeOK
  <2>5. CASE e # d
    <3>1. told'[e] = told[e]
      BY <1>5, <2>5
    <3>2. IsFiniteSet(G) /\ Cardinality(G) <= Cardinality(H) /\ Cardinality(G) \in Nat
      BY <2>3, FS_Subset, FS_CardinalityType
    <3>3. told'[e] + Cardinality(G) <= asked'[e]
      BY <1>6, <2>3, <2>4, <3>1, <3>2
    <3> QED
      BY <2>2, <3>2, <3>3
  <2>6. CASE e = d
    <3>1. u \in H
      BY <1>1, <1>4, <1>5, <1>13, <2>1, <2>6 DEF Holders
    <3>2. wizard'["setup"][u].from = NoUser /\ NoUser # d
      BY <1>3, <1>5, <1>8, <1>13, NoStateIs
    <3>3. u \notin G
      BY <1>7, <2>2, <2>6, <3>2 DEF Holders
    <3>4. /\ IsFiniteSet(H \ {u}) /\ Cardinality(H \ {u}) = Cardinality(H) - 1
          /\ G \subseteq H \ {u}
      BY <2>3, <3>1, <3>3, FS_RemoveElement
    <3>5. IsFiniteSet(G) /\ Cardinality(G) <= Cardinality(H) - 1 /\ Cardinality(G) \in Nat
      BY <3>4, FS_Subset, FS_CardinalityType
    <3>6. told'[e] = told[e] + 1
      BY <1>5, <1>13, <2>6
    <3>7. told'[e] + Cardinality(G) <= asked'[e]
      BY <1>6, <2>3, <2>4, <3>5, <3>6
    <3> QED
      BY <2>2, <3>5, <3>7
  <2> QED
    BY <2>5, <2>6
<1> QED
  BY <1>12, <1>13

\* A wizard begins that nobody delegated.
LEMMA StartTold ==
    ASSUME WInv, ToldInv, NEW f \in Flow, NEW u \in User, NEW url \in Instance \cup {NoURL},
           Start(f, u, NoUser, url), UNCHANGED <<click, asked, told>>
    PROVE  ToldInv'
<1>1. TypeOK /\ "setup" \in Flow
  BY DEF WInv, Flow
<1>2. /\ wizard'[f][u].from = NoUser
      /\ \A g \in Flow, v \in User : g # f \/ v # u => wizard'[g][v] = wizard[g][v]
  BY <1>1, StartFacts, StartedIs
<1>3. \A v \in User : wizard'["setup"][v].from \in {wizard["setup"][v].from, NoUser}
  BY <1>1, <1>2
<1> QED
  BY <1>1, <1>3, HoldersShrink, ToldKept

\* A button is clicked, or a dialog submitted.
LEMMA PressTold ==
    ASSUME WInv, ToldInv, NEW f \in Flow, NEW u \in User, NEW to \in Target,
           NEW url \in Instance \cup {NoURL}, Press(f, u, to, url),
           UNCHANGED <<wizard, asked, told>>
    PROVE  ToldInv'
<1>1. TypeOK
  BY DEF WInv
<1>2. \A v \in User :
          \/ click'[v] \in {click[v], Idle}
          \/ click'[v].flow # "setup"
          \/ click'[v].state.from = wizard["setup"][v].from
  BY PressedFrom
<1> QED
  BY <1>1, <1>2, HoldersShrink, ToldKept

LEMMA StoreTold ==
    ASSUME WInv, ToldInv, UNCHANGED <<wizard, click, asked, told>>
    PROVE  ToldInv'
BY HoldersShrink, ToldKept DEF WInv

LEMMA GoTold ==
    ASSUME WInv, ToldInv, NEW u \in User, NEW to \in {"connected", "installed-app"}, Go(u, to)
    PROVE  ToldInv'
<1>1. TypeOK /\ "setup" \in Flow /\ to \in Target /\ UNCHANGED <<click, asked, told>>
  BY NextOfIs DEF WInv, Flow, Target, Step, OAuth2Step, Go, history
<1>2. PICK st : st = Moved(wizard["setup"][u], to)
  OBVIOUS
<1>3. st.from \in {wizard["setup"][u].from, NoUser}
  BY <1>1, <1>2, Types, MovedIs
<1>4. \A v \in User : wizard'["setup"][v] = IF v = u THEN st ELSE wizard["setup"][v]
  <2>1. wizard \in [Flow -> [User -> State]]
    BY <1>1 DEF TypeOK
  <2>2. wizard' = [wizard EXCEPT !["setup"][u] = st]
    BY <1>1, <1>2, <2>1 DEF Go
  <2> QED
    BY <1>1, <2>1, <2>2
<1>5. \A v \in User : wizard'["setup"][v].from \in {wizard["setup"][v].from, NoUser}
  BY <1>3, <1>4
<1> QED
  BY <1>1, <1>5, HoldersShrink, ToldKept

LEMMA DropTold ==
    ASSUME WInv, ToldInv, NEW u \in User, Drop(u)
    PROVE  ToldInv'
<1>1. TypeOK /\ UNCHANGED <<wizard, asked, told>>
  BY DEF WInv, Drop, history
<1>2. \A v \in User : click'[v] \in {click[v], Idle}
  BY <1>1 DEF Drop, TypeOK
<1> QED
  BY <1>1, <1>2, HoldersShrink, ToldKept

LEMMA NextToldInv == WInv /\ ToldInv /\ [Next]_vars => ToldInv'
<1> SUFFICES ASSUME WInv, ToldInv, [Next]_vars PROVE ToldInv'
  OBVIOUS
<1>0. TypeOK /\ "setup" \in Flow /\ "oauth2" \in Flow
  BY DEF WInv, Flow
<1>1. ASSUME NEW u \in User, Land(u) \/ Drop(u) PROVE ToldInv'
  BY <1>1, LandTold, DropTold
<1>2. ASSUME NEW u \in User, ExecuteSetup(u) \/ OnInstall(u) PROVE ToldInv'
  BY <1>0, <1>2, StartTold DEF ExecuteSetup, OnInstall, history
<1>3. ASSUME NEW f \in Flow, NEW u \in User, NEW to \in Target, Click(f, u, to) PROVE ToldInv'
  <2>1. wizard[f][u].url \in Instance \cup {NoURL}
    BY <1>0, Types
  <2> QED
    BY <1>3, <2>1, PressTold DEF Click, history
<1>4. ASSUME NEW u \in User, NEW aider \in User, SubmitDelegateSelection(u, aider)
      PROVE  ToldInv'
  BY <1>4, DelegateTold
<1>5. ASSUME NEW u \in User, NEW i \in Instance,
             InitCreateCloudOAuthInstance(u, i) \/ SubmitCreateServerInstance(u, i)
      PROVE  ToldInv'
  <2>1. {"cloud-oauth-configure", "server-add-link"} \subseteq Target
    BY DEF Target, Step, OAuth2Step, ServerStep
  <2> QED
    BY <1>0, <1>5, <2>1, PressTold
       DEF InitCreateCloudOAuthInstance, SubmitCreateServerInstance, history
<1>6. ASSUME NEW f \in Flow, NEW u \in User, NEW i \in Instance,
             SubmitCreateCloudOAuthInstance(f, u, i)
      PROVE  ToldInv'
  <2>1. "installed-app" \in Target
    BY DEF Target, Step, OAuth2Step
  <2> QED
    BY <1>6, <2>1, PressTold DEF SubmitCreateCloudOAuthInstance
<1>7. ASSUME NEW u \in User, NEW i \in Instance, ExecuteInstanceInstallCloudOAuth(u, i)
      PROVE  ToldInv'
  BY <1>0, <1>7, StartTold, StoreTold DEF ExecuteInstanceInstallCloudOAuth, history
<1>8. ASSUME NEW u \in User, NEW i \in Instance,
             \/ ExecuteInstanceInstallServer(u, i)
             \/ ExecuteInstanceInstallCloud(u, i)
             \/ ConnectUser(u, i)
             \/ DisconnectUser(u, i)
      PROVE  ToldInv'
  BY <1>8, StoreTold DEF ExecuteInstanceInstallServer, ExecuteInstanceInstallCloud,
                         ConnectUser, DisconnectUser, history
<1>9. ASSUME NEW i \in Instance, HttpACInstalled(i) \/ ExecuteInstanceUninstall(i)
      PROVE  ToldInv'
  BY <1>9, StoreTold DEF HttpACInstalled, ExecuteInstanceUninstall, history
<1>10. ASSUME NEW u \in User, NEW to \in {"connected", "installed-app"}, Go(u, to) \/ GoFails(u, to)
       PROVE  ToldInv'
  BY <1>10, GoTold, StoreTold DEF GoFails, history
<1>11. CASE UNCHANGED vars
  BY <1>11, StoreTold DEF vars, history
<1> QED
  BY <1>1, <1>2, <1>3, <1>4, <1>5, <1>6, <1>7, <1>8, <1>9, <1>10, <1>11 DEF Next

(* Nobody is told more often that a wizard he delegated is completed than  *)
(* he delegated it, however delegations, restarts and clicks overlap: a    *)
(* delegation adds one user who may tell him, and telling, cancelling and  *)
(* starting anew each take one away (submitDelegateSelection, stepDone).   *)
THEOREM NeverToldTwice == Spec => []ToldOnce
<1>1. WInv /\ ToldInv => ToldOnce
  <2> SUFFICES ASSUME WInv, ToldInv, NEW d \in User PROVE told[d] <= asked[d]
    BY DEF ToldOnce
  <2>1. /\ Cardinality(Holders(d)) \in Nat /\ told[d] + Cardinality(Holders(d)) <= asked[d]
    BY FS_CardinalityType DEF ToldInv
  <2>2. told[d] \in Nat /\ asked[d] \in Nat
    BY DEF WInv, TypeOK
  <2> QED
    BY <2>1, <2>2
<1>2. Spec => [](WInv /\ ToldInv)
  BY InitWInv, NextWInv, InitToldInv, NextToldInv, PTL DEF Spec
<1> QED
  BY <1>1, <1>2, PTL
==============================================================================
