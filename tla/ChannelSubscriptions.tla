------------------------ MODULE ChannelSubscriptions ------------------------
(***************************************************************************)
(* The value the plugin stores under one key per Jira instance: the        *)
(* channel subscriptions, indexed by ID, by channel and by event           *)
(* (server/subscribe.go, type ChannelSubscriptions), with the two methods  *)
(* that change it and the name check of validateSubscription.              *)
(*                                                                         *)
(* A Go map whose missing entry reads as the zero value is a total         *)
(* function here: NoSub for ByID, the empty set for the two indexes.       *)
(***************************************************************************)
CONSTANTS
    SubID,      \* identifiers model.NewId() can return
    User,       \* Mattermost users
    Channel,    \* Mattermost channels
    Name,       \* subscription names
    Event,      \* Jira event types a subscription can name
    NoSub       \* the absent subscription

Sub == [user: User, channel: Channel, name: Name, events: SUBSET Event]

ASSUME NoSubAssumption == NoSub \notin Sub

Subscriptions ==
    [byID      : [SubID -> Sub \cup {NoSub}],
     byChannel : [Channel -> SUBSET SubID],
     byEvent   : [Event -> SUBSET SubID]]

NewSubscriptions ==
    [byID      |-> [id \in SubID |-> NoSub],
     byChannel |-> [c \in Channel |-> {}],
     byEvent   |-> [e \in Event |-> {}]]

Present(s) == {id \in SubID : s.byID[id] # NoSub}

\* remove(sub): the channel and the events come from the argument.
Remove(s, id, sub) ==
    [byID      |-> [s.byID EXCEPT ![id] = NoSub],
     byChannel |-> [s.byChannel EXCEPT ![sub.channel] = @ \ {id}],
     byEvent   |-> [e \in Event |-> IF e \in sub.events
                                    THEN s.byEvent[e] \ {id}
                                    ELSE s.byEvent[e]]]

\* add(newSubscription)
Add(s, id, sub) ==
    [byID      |-> [s.byID EXCEPT ![id] = sub],
     byChannel |-> [s.byChannel EXCEPT ![sub.channel] = @ \cup {id}],
     byEvent   |-> [e \in Event |-> IF e \in sub.events
                                    THEN s.byEvent[e] \cup {id}
                                    ELSE s.byEvent[e]]]

\* Mutant: remove is given the modified subscription, not the stored one.
ReplaceByModified(s, id, sub) == Add(Remove(s, id, sub), id, sub)

\* The edit of an existing subscription: remove(&oldSub), then add(modified).
Replace(s, id, sub) == Add(Remove(s, id, s.byID[id]), id, sub)

\* getSubscriptionsForChannel, then the loop over its result: another
\* subscription of the same channel already has the name.
NameTaken(s, id, sub) ==
    \E other \in s.byChannel[sub.channel] :
        /\ other # id
        /\ s.byID[other] # NoSub
        /\ s.byID[other].name = sub.name

-----------------------------------------------------------------------------
(* What the three maps promise each other: an index holds an identifier    *)
(* exactly when the subscription stored under it names that channel or     *)
(* event.  A dangling identifier makes the channel listing show a zero     *)
(* subscription; a missing one hides a subscription from its owner while   *)
(* the webhook worker, which reads only ByID, keeps posting for it.        *)
ChannelIndexMatches(s) ==
    \A id \in SubID, c \in Channel :
        id \in s.byChannel[c] <=> (s.byID[id] # NoSub /\ s.byID[id].channel = c)

EventIndexMatches(s) ==
    \A id \in SubID, e \in Event :
        id \in s.byEvent[e] <=> (s.byID[id] # NoSub /\ e \in s.byID[id].events)

IndexesMatch(s) == ChannelIndexMatches(s) /\ EventIndexMatches(s)

NamesUnique(s) ==
    \A id1, id2 \in Present(s) :
        (s.byID[id1].channel = s.byID[id2].channel /\ s.byID[id1].name = s.byID[id2].name)
            => id1 = id2
=============================================================================
