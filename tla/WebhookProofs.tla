---------------------------- MODULE WebhookProofs ----------------------------
(***************************************************************************)
(* Proofs about a webhook, from the channel it waits in to its last post.  *)
(*                                                                         *)
(* Of WebhookQueue, for every set of requests, servers and workers and     *)
(* every capacity of the channel: an accepted request is in one place, its *)
(* fate is final, and requests start in the order they were accepted in.   *)
(*                                                                         *)
(* Of WebhookEvents, for changelogs and subscriptions of any length and    *)
(* any set of values: the inductive invariant says that a result is that   *)
(* of the functions on the input; the rest is about them.                  *)
(*                                                                         *)
(* Of WebhookDelivery, for every set of users, accounts and subscriptions  *)
(* and every kind of event and instance: direct messages go only to users  *)
(* who could read the issue, and channel posts only on behalf of users who *)
(* could, or who disconnected meanwhile.                                   *)
(***************************************************************************)
EXTENDS WebhookQueue, WebhookEvents, WebhookDelivery, SequenceTheorems, TLAPS

-----------------------------------------------------------------------------
(* WebhookEvents                                                           *)

IsParse(i) == i.task = "parse" /\ i.payload \in Payload

IsMatch(i) ==
    /\ i.task = "match" /\ i.filters \in Filters
    /\ i.issue \in Issue /\ i.emptySecurity \in BOOLEAN

EventsInv ==
    \/ /\ IsParse(input)
       /\ result # NoResult => result = ParseWebhook(input.payload)
    \/ /\ IsMatch(input)
       /\ result # NoResult =>
             result.matches = MatchesFields(input.filters, input.issue, input.emptySecurity)

(* A result is what ParseWebhook or the filters make of the input.         *)
THEOREM ResultsComputed == EventsSpec => []EventsInv
<1>1. EventsInit => EventsInv
    BY DEF EventsInit, EventsInv, IsParse, IsMatch
<1>2. EventsInv /\ [EventsNext]_eventsVars => EventsInv'
  <2> SUFFICES ASSUME EventsInv, [EventsNext]_eventsVars PROVE EventsInv'
    OBVIOUS
  <2>1. CASE ParseInput
    BY <2>1 DEF ParseInput, EventsInv, IsParse, IsMatch
  <2>2. CASE MatchInput
    BY <2>2 DEF MatchInput, EventsInv, IsParse, IsMatch
  <2>3. CASE UNCHANGED eventsVars
    BY <2>3 DEF eventsVars, EventsInv, IsParse, IsMatch
  <2>4. QED
    BY <2>1, <2>2, <2>3 DEF EventsNext
<1>3. QED
    BY <1>1, <1>2, PTL DEF EventsSpec

-----------------------------------------------------------------------------
(* Security levels                                                         *)

\* A level an issue has is the value of its field.
LEMMA LevelIsValue ==
    ASSUME NEW issue \in Issue
    PROVE  /\ FieldValue(issue["security"]) = issue["security"].ids
           /\ \A v, w \in issue["security"].ids : v = w
<1>1. /\ issue["security"] \in CustomField
      /\ WellFormed(issue["security"])
      /\ issue["security"].shape # "many" /\ ~issue["security"].broken
    BY DEF Issue
<1>2. issue["security"].shape \in {"absent", "one"}
    BY <1>1 DEF CustomField
<1>3. QED
    BY <1>1, <1>2 DEF WellFormed, FieldValue

\* A filter of security levels lets a level through only if it asks for it.
LEMMA LevelAskedFor ==
    ASSUME NEW f \in Filter, f.key = "security",
           NEW level, NEW ids, level \in ids, \A v, w \in ids : v = w,
           f.inclusion # "" /\ (f.values = {} => f.inclusion = "empty"),
           IsValidFieldInclusion(f.values, ids, SecurityInclusion(f, TRUE))
    PROVE  level \in f.values /\ f.inclusion \in {"include_any", "include_all"}
<1>1. f.inclusion \in {"include_any", "include_all", "exclude_any", "empty"}
    BY DEF Filter, Inclusion
<1>2. CASE f.inclusion = "include_any"
    BY <1>2 DEF IsValidFieldInclusion, SecurityInclusion
<1>3. CASE f.inclusion = "include_all"
    BY <1>3 DEF IsValidFieldInclusion, SecurityInclusion
<1>4. CASE f.inclusion = "exclude_any"
    BY <1>4 DEF IsValidFieldInclusion, SecurityInclusion
<1>5. CASE f.inclusion = "empty"
    BY <1>5 DEF IsValidFieldInclusion, SecurityInclusion
<1>6. QED
    BY <1>1, <1>2, <1>3, <1>4, <1>5

(* With the setting on, an issue with a security level gets through only   *)
(* by a filter that includes the level, however many filters there are and *)
(* whatever they are.                                                      *)
THEOREM SecurityAlwaysKept == EventsSpec => []SecurityKept
<1>1. EventsInv => SecurityKept
  <2> SUFFICES ASSUME EventsInv, Decided, result.matches, input.emptySecurity,
                      NEW level \in input.issue["security"].ids
               PROVE  \E k \in DOMAIN input.filters :
                         LET f == input.filters[k]
                         IN  /\ f.key = "security" /\ level \in f.values
                             /\ f.inclusion \in {"include_any", "include_all"}
    BY DEF SecurityKept
  <2> DEFINE ids == input.issue["security"].ids
  <2>1. /\ IsMatch(input)
        /\ MatchesFields(input.filters, input.issue, TRUE)
    BY DEF EventsInv, Decided, IsParse, IsMatch
  <2>2. /\ FieldValue(input.issue["security"]) = ids
        /\ \A v, w \in ids : v = w
    BY <2>1, LevelIsValue DEF IsMatch
  <2>3. PICK k \in DOMAIN input.filters : input.filters[k].key = "security"
    BY <2>1, <2>2 DEF MatchesFields
  <2>4. input.filters[k] \in Filter
    BY <2>1, <2>3 DEF IsMatch, Filters
  <2>5. /\ input.filters[k].inclusion # ""
        /\ input.filters[k].values = {} => input.filters[k].inclusion = "empty"
        /\ IsValidFieldInclusion(input.filters[k].values, ids,
                                 SecurityInclusion(input.filters[k], TRUE))
    BY <2>1, <2>2, <2>3 DEF MatchesFields
  <2>6. /\ level \in input.filters[k].values
        /\ input.filters[k].inclusion \in {"include_any", "include_all"}
    <3> DEFINE f == input.filters[k]
    <3>1. f \in Filter /\ f.key = "security" /\ level \in ids
        BY <2>3, <2>4
    <3> HIDE DEF f, ids
    <3>2. /\ f.inclusion # "" /\ (f.values = {} => f.inclusion = "empty")
          /\ IsValidFieldInclusion(f.values, ids, SecurityInclusion(f, TRUE))
          /\ \A v, w \in ids : v = w
        BY <2>2, <2>5 DEF f
    <3>3. level \in f.values /\ f.inclusion \in {"include_any", "include_all"}
        BY <3>1, <3>2, LevelAskedFor
    <3>4. QED
        BY <3>3 DEF f
  <2>7. QED
    BY <2>3, <2>6
<1>2. QED
    BY <1>1, ResultsComputed, PTL

-----------------------------------------------------------------------------
(* Changelogs                                                              *)

\* A changelog has the events of its entries, whether none, one or several of
\* them are supported.
LEMMA ChangeLogEvents ==
    ASSUME NEW p
    PROVE  ParseWebhookChangeLog(p).events = UNION {ItemEvents(p.items[k]) : k \in DOMAIN p.items}
<1> DEFINE all == UNION {ItemEvents(p.items[k]) : k \in DOMAIN p.items}
           ks == {k \in DOMAIN p.items : ItemEvents(p.items[k]) # {}}
<1>1. all = UNION {ItemEvents(p.items[k]) : k \in ks}
    OBVIOUS
<1>2. CASE ks = {}
  <2>1. ParseWebhookChangeLog(p) = Failed("unsupported")
    BY <1>2 DEF ParseWebhookChangeLog
  <2>2. all = {}
    BY <1>1, <1>2
  <2>3. QED
    BY <2>1, <2>2 DEF Failed
<1>3. CASE ks # {} /\ \A j, k \in ks : j = k
  <2> DEFINE k == CHOOSE k \in ks : TRUE
  <2>1. ks = {k}
    BY <1>3
  <2>2. all = ItemEvents(p.items[k])
    BY <1>1, <2>1
  <2>3. ParseWebhookChangeLog(p) =
            IF p.items[k].field = "assignee" THEN ParseWebhookAssigned(p)
            ELSE Webhook(ItemEvents(p.items[k]), FALSE)
    BY <1>3 DEF ParseWebhookChangeLog
  <2> HIDE DEF k, ks
  <2>4. p.items[k].field = "assignee" => ItemEvents(p.items[k]) = {"assignee"}
    BY DEF ItemEvents, EventOf
  <2>5. QED
    BY <2>2, <2>3, <2>4 DEF ParseWebhookAssigned, Webhook
<1>4. CASE ks # {} /\ ~(\A j, k \in ks : j = k)
  <2>1. ParseWebhookChangeLog(p) = MergeWebhookEvents(p, ks)
    BY <1>4 DEF ParseWebhookChangeLog
  <2>2. QED
    BY <1>1, <2>1 DEF MergeWebhookEvents, Webhook
<1>5. QED
    BY <1>2, <1>3, <1>4

\* What Jira calls an update is parsed by its changelog.
LEMMA UpdateByChangeLog ==
    ASSUME NEW p, p.event = "updated", p.name = "updated", p.fields = TRUE
    PROVE  ParseWebhook(p) = ParseWebhookChangeLog(p)
<1>1. ParseWebhook(p) = ParseWebhookUpdated(p)
    BY DEF ParseWebhook
<1>2. ParseWebhookUpdated(p) = ParseWebhookChangeLog(p)
    BY DEF ParseWebhookUpdated
<1>3. QED
    BY <1>1, <1>2

\* ... also when it is cut down to one entry.
LEMMA OneEntry ==
    ASSUME NEW p \in Payload, p.event = "updated", p.name = "updated", NEW i
    PROVE  ParseWebhook([p EXCEPT !.items = <<i>>]).events = ItemEvents(i)
<1> DEFINE q == [p EXCEPT !.items = <<i>>]
<1>1. /\ q.event = "updated" /\ q.name = "updated" /\ q.fields = TRUE
      /\ q.items = <<i>>
    BY DEF Payload
<1> HIDE DEF q
<1>2. ParseWebhook(q).events = UNION {ItemEvents(q.items[k]) : k \in DOMAIN q.items}
    BY <1>1, UpdateByChangeLog, ChangeLogEvents
<1>3. DOMAIN q.items = {1} /\ q.items[1] = i
    BY <1>1
<1>4. ParseWebhook(q).events = ItemEvents(i)
    BY <1>2, <1>3
<1>5. QED
    BY <1>4 DEF q

(* However many fields an edit changes, the events of the webhook are      *)
(* those of its entries parsed one by one.                                 *)
THEOREM MergedEvents == EventsSpec => []MergeKeepsEvents
<1>1. EventsInv => MergeKeepsEvents
  <2> SUFFICES ASSUME EventsInv, Parsed,
                      input.payload.event = "updated", input.payload.name = "updated"
               PROVE  LET p == input.payload
                      IN  result.events =
                            UNION {ParseWebhook([p EXCEPT !.items = <<p.items[k]>>]).events :
                                      k \in DOMAIN p.items}
    BY DEF MergeKeepsEvents
  <2> DEFINE p == input.payload
  <2>1. p \in Payload /\ result = ParseWebhook(p)
    BY DEF EventsInv, Parsed, IsParse, IsMatch
  <2>2. p.fields = TRUE
    BY <2>1 DEF Payload
  <2> HIDE DEF p
  <2>3. p.event = "updated" /\ p.name = "updated"
    BY DEF p
  <2>4. result.events = UNION {ItemEvents(p.items[k]) : k \in DOMAIN p.items}
    BY <2>1, <2>2, <2>3, UpdateByChangeLog, ChangeLogEvents
  <2>5. \A k \in DOMAIN p.items :
            ParseWebhook([p EXCEPT !.items = <<p.items[k]>>]).events = ItemEvents(p.items[k])
    BY <2>1, <2>3, OneEntry
  <2>6. result.events = UNION {ParseWebhook([p EXCEPT !.items = <<p.items[k]>>]).events :
                                  k \in DOMAIN p.items}
    BY <2>4, <2>5
  <2>7. QED
    BY <2>6 DEF p
<1>2. QED
    BY <1>1, ResultsComputed, PTL

-----------------------------------------------------------------------------
(* The notification of the assignee                                        *)

\* Only the entry of the assignee is an assignment.
LEMMA AssigneeEntry ==
    ASSUME NEW i, ItemEvents(i) = {"assignee"}
    PROVE  i.field = "assignee"
    BY DEF ItemEvents, EventOf

\* An assignment by somebody else notifies.
LEMMA AssignmentNotifies ==
    ASSUME NEW p, p.assignee = "another"
    PROVE  ParseWebhookAssigned(p).notifies
<1>1. AppendsNotification(p) = TRUE
    BY Zenon DEF AppendsNotification
<1>2. ParseWebhookAssigned(p) = Webhook({"assignee"}, TRUE)
    BY <1>1, Zenon DEF ParseWebhookAssigned
<1>3. Webhook({"assignee"}, TRUE).notifies = TRUE
    BY DEF Webhook
<1>4. QED
    BY <1>2, <1>3, Zenon

\* A changelog whose only event is the assignment was not merged.
LEMMA ChangeLogNotifies ==
    ASSUME NEW p, p.items \in Items, p.assignee = "another",
           ParseWebhookChangeLog(p).events = {"assignee"}
    PROVE  ParseWebhookChangeLog(p).notifies
<1> DEFINE ks == {k \in DOMAIN p.items : ItemEvents(p.items[k]) # {}}
<1>1. UNION {ItemEvents(p.items[k]) : k \in DOMAIN p.items} = {"assignee"}
    BY ChangeLogEvents
<1>2. \A k \in ks : ItemEvents(p.items[k]) = {"assignee"}
    BY <1>1
<1>3. \A k \in ks : p.items[k].field = "assignee"
    BY <1>2, AssigneeEntry
<1>4. ks # {}
    BY <1>1
<1>5. \A j, k \in ks : j = k
    BY <1>3 DEF Items
<1>6. ParseWebhookChangeLog(p) = ParseWebhookAssigned(p)
    BY <1>3, <1>4, <1>5 DEF ParseWebhookChangeLog
<1>7. QED
    BY <1>6, AssignmentNotifies

(* An edit of which the assignment is the only supported change, however   *)
(* long its changelog, notifies the new assignee.                          *)
THEOREM AssigneeAlwaysNotified == EventsSpec => []AssigneeNotified
<1>1. EventsInv => AssigneeNotified
  <2> SUFFICES ASSUME EventsInv, Parsed, result.is = "webhook", result.events = {"assignee"},
                      input.payload.assignee = "another"
               PROVE  result.notifies
    BY DEF AssigneeNotified
  <2> DEFINE p == input.payload
  <2>1. p \in Payload /\ result = ParseWebhook(p)
    BY DEF EventsInv, Parsed, IsParse, IsMatch
  <2> HIDE DEF p
  <2>2. p.assignee = "another" /\ ParseWebhook(p).events = {"assignee"}
    BY <2>1 DEF p
  <2>3. \A e \in CommentEvent : ParseWebhookComment(p, e).events # {"assignee"}
    BY DEF ParseWebhookComment, CommentEvent, Webhook, Failed
  <2>4. ParseWebhookDeleted(p).events # {"assignee"}
    BY DEF ParseWebhookDeleted, Webhook
  <2>5. \A how : Failed(how).events # {"assignee"}
    BY DEF Failed
  <2>6. p.event = "updated" /\ ParseWebhook(p) = ParseWebhookUpdated(p)
    <3>1. p.fields
        BY <2>2, <2>5 DEF ParseWebhook
    <3>2. p.event \in {"created", "deleted", "comment_created", "comment_updated",
                       "comment_deleted", "worklog", "other", "none", "updated"}
        BY <2>1 DEF Payload
    <3>3. Webhook({"created"}, AppendsNotification(p)).events # {"assignee"}
        BY DEF Webhook
    <3>4. QED
        BY <2>2, <2>3, <2>4, <2>5, <3>1, <3>2, <3>3 DEF ParseWebhook, CommentEvent
  <2>7. p.items \in Items /\ p.name \in EventName
    BY <2>1, <2>6 DEF Payload
  <2>8. CASE p.name = "assigned"
    <3>1. ParseWebhook(p) = ParseWebhookAssigned(p)
        BY <2>2, <2>5, <2>6, <2>8 DEF ParseWebhookUpdated
    <3>2. QED
        BY <2>1, <2>2, <3>1, AssignmentNotifies
  <2>9. CASE ParseWebhook(p) = ParseWebhookChangeLog(p)
    BY <2>1, <2>2, <2>7, <2>9, ChangeLogNotifies
  <2>10. CASE p.name = "other" /\ ParseWebhook(p) # ParseWebhookChangeLog(p)
    <3>1. ParseWebhook(p) = ParseWebhookUnspecified(p)
        BY <2>6, <2>10 DEF ParseWebhookUpdated
    <3>2. p.comment \in {"none", "new", "edited"}
        BY <2>1, <2>6 DEF Payload
    <3>3. QED
        BY <2>2, <2>3, <2>5, <2>10, <3>1, <3>2 DEF ParseWebhookUnspecified, CommentEvent
  <2>11. CASE p.name \in {"commented", "comment_edited", "comment_deleted"}
    BY <2>2, <2>3, <2>6, <2>11 DEF ParseWebhookUpdated, CommentEvent
  <2>12. CASE p.name = "updated"
    BY <2>6, <2>9, <2>12 DEF ParseWebhookUpdated
  <2>13. QED
    BY <2>7, <2>8, <2>9, <2>10, <2>11, <2>12 DEF EventName
<1>2. QED
    BY <1>1, ResultsComputed, PTL

-----------------------------------------------------------------------------
(* The options that stand for many events                                  *)

\* The events of updates, by name.
LEMMA UpdatedEvents ==
    UpdatedEvent = {"status", "priority", "summary", "description", "Sprint", "Rank",
                    "Attachment", "labels", "assignee", "issue_type", "fix_version",
                    "affects_version", "reporter", "components", "reopened", "resolved", "custom"}
    BY DEF UpdatedEvent, EventOf

LEMMA ItemUpdates ==
    ASSUME NEW i \in Item
    PROVE  ItemEvents(i) \subseteq UpdatedEvent
<1>1. \A f \in DOMAIN EventOf : EventOf[f] \in UpdatedEvent
    BY DEF UpdatedEvent
<1>2. {"reopened", "resolved", "custom"} \subseteq UpdatedEvent
    BY DEF UpdatedEvent
<1>3. QED
    BY <1>1, <1>2 DEF ItemEvents

\* A webhook made of a changelog has an event, and only events of updates.
LEMMA ChangeLogUpdates ==
    ASSUME NEW p, p.items \in Items, ParseWebhookChangeLog(p).is = "webhook"
    PROVE  /\ ParseWebhookChangeLog(p).events # {}
           /\ ParseWebhookChangeLog(p).events \subseteq UpdatedEvent
<1> DEFINE ks == {k \in DOMAIN p.items : ItemEvents(p.items[k]) # {}}
<1>1. ParseWebhookChangeLog(p).events = UNION {ItemEvents(p.items[k]) : k \in DOMAIN p.items}
    BY ChangeLogEvents
<1>2. \A k \in DOMAIN p.items : p.items[k] \in Item
    BY DEF Items
<1>3. \A k \in DOMAIN p.items : ItemEvents(p.items[k]) \subseteq UpdatedEvent
    BY <1>2, ItemUpdates
<1>4. Failed("unsupported").is # "webhook"
    BY DEF Failed
<1>5. ks # {}
    BY <1>4 DEF ParseWebhookChangeLog
<1>6. QED
    BY <1>1, <1>3, <1>5

\* A webhook made of a comment has one event, of a comment.
LEMMA CommentOnly ==
    ASSUME NEW p, NEW e \in CommentEvent, ParseWebhookComment(p, e).is = "webhook"
    PROVE  ParseWebhookComment(p, e).events = {e}
    BY DEF ParseWebhookComment, Webhook, Failed

\* Of what Jira reports as neither the creation nor the deletion of an issue,
\* a webhook has an event, and only events of updates and comments.
LEMMA UpdateEvents ==
    ASSUME NEW p \in Payload, p.event \notin {"created", "deleted"},
           ParseWebhook(p).is = "webhook"
    PROVE  /\ ParseWebhook(p).events # {}
           /\ ParseWebhook(p).events \subseteq UpdatedEvent \cup CommentEvent
<1> DEFINE Good(w) == w.events # {} /\ w.events \subseteq UpdatedEvent \cup CommentEvent
<1>1. \A how : how \in {"error", "ignored", "unsupported", "panic"} => Failed(how).is # "webhook"
    BY DEF Failed
<1>2. \A e \in CommentEvent :
          ParseWebhookComment(p, e).is = "webhook" => Good(ParseWebhookComment(p, e))
    BY CommentOnly
<1>3. p.items \in Items /\ ParseWebhookChangeLog(p).is = "webhook" =>
          Good(ParseWebhookChangeLog(p))
    BY ChangeLogUpdates
<1>4. Good(ParseWebhookAssigned(p))
    BY UpdatedEvents DEF ParseWebhookAssigned, Webhook
<1> HIDE DEF Good
<1>5. {"created_comment", "updated_comment", "deleted_comment"} \subseteq CommentEvent
    BY DEF CommentEvent
<1>6. CASE p.event = "updated"
  <2>1. /\ p.items \in Items /\ p.name \in EventName /\ p.comment \in {"none", "new", "edited"}
        /\ p.fields = TRUE
    BY <1>6 DEF Payload
  <2>2. ParseWebhook(p) = ParseWebhookUpdated(p)
    BY <1>6, <2>1 DEF ParseWebhook
  <2>3. ParseWebhookUnspecified(p).is = "webhook" => Good(ParseWebhookUnspecified(p))
    BY <1>1, <1>2, <1>3, <1>5, <2>1 DEF ParseWebhookUnspecified
  <2>4. Good(ParseWebhookUpdated(p))
    BY <1>1, <1>2, <1>3, <1>4, <1>5, <2>1, <2>2, <2>3 DEF ParseWebhookUpdated, EventName
  <2>5. QED
    BY <2>2, <2>4 DEF Good
<1>7. CASE p.event # "updated"
  <2>1. p.event \in {"comment_created", "comment_updated", "comment_deleted",
                     "worklog", "other", "none"}
    BY <1>7 DEF Payload
  <2>2. Good(ParseWebhook(p))
    BY <1>1, <1>2, <1>5, <1>7, <2>1 DEF ParseWebhook
  <2>3. QED
    BY <2>2 DEF Good
<1>8. QED
    BY <1>6, <1>7

\* An issue that is created or deleted is neither updated nor commented.
LEMMA CreatedOrDeleted ==
    ASSUME NEW p \in Payload, p.event \in {"created", "deleted"}, ParseWebhook(p).is = "webhook"
    PROVE  ParseWebhook(p).events \cap (UpdatedEvent \cup CommentEvent \cup {"updated_any"}) = {}
<1>1. p.fields => ParseWebhook(p).events \subseteq {"created", "deleted", "deleted_unresolved"}
    BY DEF ParseWebhook, ParseWebhookDeleted, Webhook
<1>2. p.fields
    BY DEF ParseWebhook, Failed
<1>3. QED
    BY <1>1, <1>2, UpdatedEvents DEF CommentEvent

\* What one parameter of a legacy webhook adds is posted with updated_all.
LEMMA MasksInAll ==
    ASSUME NEW q \in DOMAIN Masks
    PROVE  q # "updated_all" /\ Masks[q] \subseteq AllEvents
    BY UpdatedEvents DEF Masks, AllEvents, Event, CommentEvent

LEMMA AllPostsMore ==
    ASSUME NEW q \in DOMAIN Masks, NEW events, Posts({q}, events)
    PROVE  Posts({"updated_all"}, events)
<1>1. q # "updated_all" /\ Masks[q] \subseteq AllEvents
    BY MasksInAll
<1>2. UNION {IF r = "updated_all" THEN AllEvents ELSE Masks[r] : r \in {q}} = Masks[q]
    BY <1>1
<1>3. UNION {IF r = "updated_all" THEN AllEvents ELSE Masks[r] : r \in {"updated_all"}} = AllEvents
    OBVIOUS
<1>4. QED
    BY <1>1, <1>2, <1>3 DEF Posts

(* "Issue Updated: Any" lets through exactly what Jira reports as an       *)
(* update or a comment, and updated_all posts whatever one of the other    *)
(* parameters posts, for changelogs of any length.                         *)
THEOREM OptionsAlwaysKept == EventsSpec => []OptionsKept
<1>1. EventsInv => OptionsKept
  <2> SUFFICES ASSUME EventsInv, Parsed, result.is = "webhook"
               PROVE  /\ MatchesEvents({"updated_any"}, result.events)
                            <=> input.payload.event \notin {"created", "deleted"}
                      /\ \A q \in DOMAIN Masks :
                            Posts({q}, result.events) => Posts({"updated_all"}, result.events)
    BY DEF OptionsKept
  <2> DEFINE p == input.payload
  <2>1. p \in Payload /\ result = ParseWebhook(p)
    BY DEF EventsInv, Parsed, IsParse, IsMatch
  <2> HIDE DEF p
  <2>2. CASE p.event \in {"created", "deleted"}
    <3>1. result.events \cap (UpdatedEvent \cup CommentEvent \cup {"updated_any"}) = {}
        BY <2>1, <2>2, CreatedOrDeleted
    <3>2. ~MatchesEvents({"updated_any"}, result.events)
        BY <3>1 DEF MatchesEvents
    <3>3. QED
        BY <2>2, <3>2, AllPostsMore DEF p
  <2>3. CASE p.event \notin {"created", "deleted"}
    <3>1. result.events \cap (UpdatedEvent \cup CommentEvent) # {}
        BY <2>1, <2>3, UpdateEvents
    <3>2. MatchesEvents({"updated_any"}, result.events)
        BY <3>1 DEF MatchesEvents
    <3>3. QED
        BY <2>3, <3>2, AllPostsMore DEF p
  <2>4. QED
    BY <2>2, <2>3
<1>2. QED
    BY <1>1, ResultsComputed, PTL

-----------------------------------------------------------------------------
(* Delivery                                                                *)


USE DeliveryAssumption

\* The empty connection matches no Self filter that names a role.
LEMMA EmptyMatchesNothing ==
    ASSUME TypeOK, NEW s \in SubID, Owner[s] # NoUser
    PROVE  ~MatchesSelf(NoAccount, Roles[s])
  <1>1. \A i \in DOMAIN Roles[s] : Roles[s][i] \in Role
    OBVIOUS
  <1>2. \A i \in DOMAIN Roles[s] : ~RoleHolds(NoAccount, Roles[s][i])
    BY <1>1 DEF RoleHolds, Role, GetIssue, TypeOK
  <1>3. QED
    BY <1>2 DEF MatchesSelf

\* Steps of the worker leave the environment alone, and steps of the
\* environment the worker.
LEMMA StepFrame ==
    ASSUME Step
    PROVE  UNCHANGED environment
  BY DEF Step, Keep, environment, Parse, Notify, NotifyCheck, NotifyPost, Expand, Subscribed,
     Match, Matched, Take, CheckPermissions, PostToChannel, Finish

LEMMA InitInv == Init => IInv
  <1> SUFFICES ASSUME Init PROVE IInv
    OBVIOUS
  <1>1. \A a \in Account :
           (IF \E u \in User : connected[u] = a
            THEN CHOOSE u \in User : connected[u] = a ELSE NoUser) \in AnyUser
    BY DEF AnyUser
  <1>2. userOf \in [Account -> AnyUser]
    BY <1>1 DEF Init
  <1>3. TypeOK
    BY <1>2 DEF Init, TypeOK, AnyUser
  <1>4. QED
    BY <1>3 DEF Init, IInv, OwnerWasConnected, MessagesOnlyToReaders, UncheckedOnlyAfterDisconnect

-----------------------------------------------------------------------------
\* Whatever happens, the histories grow, and could keeps up with the readers.
LEMMA HistoryStep ==
    ASSUME TypeOK, Remember, connected' \in [User -> AnyAccount]
    PROVE  /\ could \subseteq could' /\ left \subseteq left'
           /\ could' \subseteq User /\ left' \subseteq User
           /\ \A u \in User : connected'[u] \in mayRead' => u \in could'
           /\ \A u \in User : connected[u] # NoAccount => connected'[u] # NoAccount \/ u \in left'
  BY DEF TypeOK, Remember

LEMMA TypeStep ==
    ASSUME TypeOK, pc = "post" => current \in SubID, Next
    PROVE  TypeOK'
  <1>1. CASE Step
    <2>1. UNCHANGED environment
      BY <1>1, StepFrame
    <2>2. connected' \in [User -> AnyAccount]
      BY <2>1 DEF environment, TypeOK
    <2>3. /\ pc' \in {"parse", "notify", "dmcheck", "dm", "expand", "subs", "match",
                      "next", "check", "post", "done", "panic"}
          /\ todo' \subseteq SubID /\ matched' \subseteq SubID
          /\ target' \in AnyUser
          /\ current' \in SubID \cup {NoSubID}
      BY <1>1 DEF Step, Keep, Goto, TypeOK, Parse, Notify, NotifyCheck, NotifyPost, Expand,
         Subscribed, Match, Matched, Take, CheckPermissions, PostToChannel, Finish,
         MattermostUser, AnyUser, AnyAccount
    <2>4. CASE NotifyPost
      BY <2>1, <2>2, <2>3, <2>4, HistoryStep
      DEF Next, NotifyPost, Connection, TypeOK, AnyUser, environment
    <2>5. CASE PostToChannel
      <3>1. posted' \subseteq SubID
        BY <2>5 DEF PostToChannel, TypeOK
      <3>2. QED
        BY <2>1, <2>2, <2>3, <2>5, <3>1, HistoryStep DEF Next, PostToChannel, TypeOK, environment
    <2>6. CASE UNCHANGED <<notified, posted>>
      BY <2>1, <2>2, <2>3, <2>6, HistoryStep DEF Next, TypeOK, environment
    <2>7. QED
      BY <1>1, <2>4, <2>5, <2>6
      DEF Step, Keep, Parse, Notify, NotifyCheck, Expand, Subscribed, Match, Matched, Take,
          CheckPermissions, Finish
  <1>2. CASE Environment
    <2> DEFINE EnvironmentOK ==
          /\ connected' \in [User -> AnyAccount]
          /\ userOf' \in [Account -> AnyUser]
          /\ installed' \in BOOLEAN /\ subs' \subseteq SubID /\ mayRead' \subseteq Account
    <2>1. EnvironmentOK
      <3>1. ASSUME NEW u \in User, NEW a \in Account, Connect(u, a)
            PROVE  EnvironmentOK
        BY <3>1 DEF Connect, TypeOK, AnyUser, AnyAccount
      <3>2. ASSUME NEW u \in User, Disconnect(u)
            PROVE  EnvironmentOK
        BY <3>2 DEF Disconnect, TypeOK, AnyUser, AnyAccount
      <3>3. CASE Uninstall
        BY <3>3 DEF Uninstall, TypeOK
      <3>4. ASSUME NEW s \in SubID, Resubscribe(s)
            PROVE  EnvironmentOK
        BY <3>4 DEF Resubscribe, TypeOK
      <3>5. ASSUME NEW a \in Account, Repermit(a)
            PROVE  EnvironmentOK
        BY <3>5 DEF Repermit, TypeOK
      <3>6. QED
        BY <1>2, <3>1, <3>2, <3>3, <3>4, <3>5 DEF Environment
    <2>2. UNCHANGED <<worker, notified, posted>>
      BY <1>2 DEF Environment
    <2>3. QED
      BY <2>1, <2>2, HistoryStep DEF Next, TypeOK, worker
  <1>3. QED
    BY <1>1, <1>2 DEF Next

-----------------------------------------------------------------------------
\* A subscription that was matched before the step still has an owner who was
\* connected after it.
LEMMA OwnerStep ==
    ASSUME TypeOK, TypeOK', Remember, NEW s \in SubID, OwnerWasConnected(s)
    PROVE  OwnerWasConnected(s)'
  BY HistoryStep DEF OwnerWasConnected, TypeOK

\* One that the step matches has one too.
LEMMA MatchStep ==
    ASSUME IInv, Remember, NEW s \in SubID, Match(s)
    PROVE  \A x \in matched' : OwnerWasConnected(x)'
  <1>1. TypeOK /\ UNCHANGED environment /\ matched \subseteq SubID /\ left \subseteq left'
    BY HistoryStep DEF IInv, TypeOK, Match, environment
  <1>2. \A x \in matched : OwnerWasConnected(x)'
    BY <1>1 DEF IInv, OwnerWasConnected, environment
  <1>3. ASSUME s \in matched', s \notin matched
        PROVE  OwnerWasConnected(s)'
    <2>1. MatchesSelf(Connection(Owner[s]), Roles[s])
      BY <1>3 DEF Match
    <2>2. Owner[s] # NoUser => connected[Owner[s]] # NoAccount
      BY <1>1, <2>1, EmptyMatchesNothing DEF Connection
    <2>3. QED
      BY <1>1, <2>2 DEF OwnerWasConnected, environment
  <1>4. matched' \subseteq matched \cup {s}
    BY DEF Match
  <1>5. QED
    BY <1>2, <1>3, <1>4

\* What passes CheckPermissions may be posted: the owner can read the issue
\* or, when there is no connection to ask with, has left.
LEMMA CheckStep ==
    ASSUME IInv, Remember, CheckPermissions, pc' = "post"
    PROVE  Owner[current] \in could' \cup left'
  <1>1. /\ TypeOK /\ current \in SubID /\ Owner[current] \in User
        /\ OwnerWasConnected(current)
        /\ UNCHANGED environment
        /\ could \subseteq could' /\ left \subseteq left'
    BY HistoryStep DEF IInv, TypeOK, CheckPermissions, Keep, environment
  <1>2. CASE connected[Owner[current]] = NoAccount
    BY <1>1, <1>2 DEF OwnerWasConnected
  <1>3. CASE connected[Owner[current]] # NoAccount
    <2>1. connected[Owner[current]] \in mayRead
      BY <1>1, <1>3 DEF CheckPermissions, Goto, Connection, GetClient, GetIssue
    <2>2. QED
      BY <1>1, <2>1 DEF IInv
  <1>4. QED
    BY <1>2, <1>3

LEMMA NextInv == IInv /\ [Next]_vars => IInv'
  <1> SUFFICES ASSUME IInv, [Next]_vars PROVE IInv'
    OBVIOUS
  <1>1. CASE UNCHANGED vars
    BY <1>1 DEF vars, environment, worker, history, IInv, TypeOK, OwnerWasConnected,
       MessagesOnlyToReaders, UncheckedOnlyAfterDisconnect
  <1>2. CASE Next
    <2>1. TypeOK /\ TypeOK' /\ Remember
      BY <1>2, TypeStep DEF IInv, Next
    <2>2. /\ could \subseteq could' /\ left \subseteq left'
          /\ \A u \in User : connected'[u] \in mayRead' => u \in could'
      BY <2>1, HistoryStep DEF TypeOK
    <2>3. pc' = "dm" => target' \in could'
      <3>1. CASE NotifyCheck /\ pc' = "dm"
        <4>1. target' = target /\ Connection(target) \in mayRead
          BY <3>1 DEF NotifyCheck, Keep, Goto, GetIssue
        <4>2. target \in User /\ connected[target] \in mayRead
          BY <2>1, <4>1 DEF Connection, TypeOK, AnyUser
        <4>3. QED
          BY <2>2, <4>1, <4>2 DEF IInv
      <3>2. CASE pc = "dm" /\ UNCHANGED <<pc, target>>
        BY <2>2, <3>2 DEF IInv
      <3>3. CASE pc' # "dm"
        BY <3>3
      <3>4. QED
        BY <1>2, <3>1, <3>2, <3>3
        DEF Next, Environment, worker, Step, Goto, Keep, Parse, Notify, NotifyCheck, NotifyPost,
            Expand, Subscribed, Match, Matched, Take, CheckPermissions, PostToChannel, Finish
    <2>4. \A s \in matched' : OwnerWasConnected(s)'
      <3>1. CASE matched' \subseteq matched
        BY <2>1, <3>1, OwnerStep DEF IInv, TypeOK
      <3>2. ASSUME NEW s \in SubID, Match(s)
            PROVE  \A x \in matched' : OwnerWasConnected(x)'
        BY <2>1, <3>2, MatchStep
      <3>3. QED
        BY <1>2, <3>1, <3>2
        DEF Next, Environment, worker, Step, Goto, Keep, Parse, Notify, NotifyCheck, NotifyPost,
            Expand, Subscribed, Matched, Take, CheckPermissions, PostToChannel, Finish
    <2>5. pc' \in {"check", "post"} =>
              current' \in SubID /\ Owner[current'] # NoUser /\ OwnerWasConnected(current)'
      <3>1. ASSUME NEW s \in SubID, Take(s), pc' = "check"
            PROVE  current' \in SubID /\ Owner[current'] # NoUser /\ OwnerWasConnected(current)'
        <4>1. s \in matched /\ current' = s /\ Owner[s] # NoUser
          BY <3>1 DEF Take, Goto
        <4>2. OwnerWasConnected(s)'
          BY <2>1, <4>1, OwnerStep DEF IInv
        <4>3. QED
          BY <4>1, <4>2 DEF OwnerWasConnected
      <3>2. CASE pc \in {"check", "post"} /\ current' = current
        <4>1. OwnerWasConnected(current) /\ current \in SubID /\ Owner[current] # NoUser
          BY <3>2 DEF IInv
        <4>2. QED
          BY <2>2, <2>1, <3>2, <4>1, HistoryStep DEF OwnerWasConnected, TypeOK
      <3>3. CASE pc' \notin {"check", "post"}
        BY <3>3
      <3>4. QED
        BY <1>2, <3>1, <3>2, <3>3
        DEF Next, Environment, worker, Step, Goto, Keep, Parse, Notify, NotifyCheck, NotifyPost,
            Expand, Subscribed, Match, Matched, Take, CheckPermissions, PostToChannel, Finish
    <2>6. pc' = "post" => Owner[current'] \in could' \cup left'
      <3>1. CASE CheckPermissions /\ pc' = "post"
        BY <2>1, <3>1, CheckStep DEF CheckPermissions, Keep
      <3>2. CASE pc = "post" /\ UNCHANGED <<pc, current>>
        BY <2>2, <3>2 DEF IInv
      <3>3. CASE pc' # "post"
        BY <3>3
      <3>4. QED
        BY <1>2, <3>1, <3>2, <3>3
        DEF Next, Environment, worker, Step, Goto, Keep, Parse, Notify, NotifyCheck, NotifyPost,
            Expand, Subscribed, Match, Matched, Take, CheckPermissions, PostToChannel, Finish
    <2>7. MessagesOnlyToReaders'
      <3>1. CASE NotifyPost
        BY <2>2, <3>1 DEF NotifyPost, IInv, MessagesOnlyToReaders
      <3>2. CASE notified' = notified
        BY <2>2, <3>2 DEF IInv, MessagesOnlyToReaders
      <3>3. QED
        BY <1>2, <3>1, <3>2
        DEF Next, Environment, Step, Keep, Parse, Notify, NotifyCheck, Expand, Subscribed,
            Match, Matched, Take, CheckPermissions, PostToChannel, Finish
    <2>8. UncheckedOnlyAfterDisconnect'
      <3>1. CASE PostToChannel
        BY <2>2, <3>1 DEF PostToChannel, IInv, UncheckedOnlyAfterDisconnect
      <3>2. CASE posted' = posted
        BY <2>2, <3>2 DEF IInv, UncheckedOnlyAfterDisconnect
      <3>3. QED
        BY <1>2, <3>1, <3>2
        DEF Next, Environment, Step, Keep, Parse, Notify, NotifyCheck, NotifyPost, Expand,
            Subscribed, Match, Matched, Take, CheckPermissions, Finish
    <2>9. QED
      BY <2>1, <2>2, <2>3, <2>4, <2>5, <2>6, <2>7, <2>8 DEF IInv
  <1>3. QED
    BY <1>1, <1>2

(* The inductive invariant of the worker.                                  *)
THEOREM DeliveryConsistency == Spec => []IInv
  BY InitInv, NextInv, PTL DEF Spec

(* Direct messages go only to users who could read the issue in Jira with  *)
(* the account they are connected to.                                      *)
THEOREM MessagesToReaders == Spec => []MessagesOnlyToReaders
  BY DeliveryConsistency, PTL DEF IInv

(* A channel gets a post only on behalf of a user who could read the issue *)
(* or who disconnected while the worker was at it.                         *)
THEOREM UncheckedPosts == Spec => []UncheckedOnlyAfterDisconnect
  BY DeliveryConsistency, PTL DEF IInv

-----------------------------------------------------------------------------
\* On a JWT cloud instance every connection makes a client, so nothing is
\* posted that Jira was not asked about.
CloudInv == (pc = "post" => Owner[current] \in could) /\ PostsOnlyToReaders

LEMMA CloudStep ==
    ASSUME InstanceType = "cloud", IInv, CloudInv, [Next]_vars
    PROVE  CloudInv'
  <1>1. CASE UNCHANGED vars
    BY <1>1 DEF vars, worker, history, CloudInv, PostsOnlyToReaders
  <1>2. CASE Next
    <2>1. TypeOK /\ Remember /\ could \subseteq could'
      BY <1>2 DEF IInv, Next, Remember
    <2>2. pc' = "post" => Owner[current'] \in could'
      <3>1. CASE CheckPermissions /\ pc' = "post"
        <4>1. current' = current /\ current \in SubID /\ Owner[current] \in User
          BY <3>1 DEF IInv, CheckPermissions, Keep
        <4>2. connected[Owner[current]] \in mayRead
          BY <3>1, <4>1 DEF CheckPermissions, Goto, Connection, GetClient, GetIssue
        <4>3. QED
          BY <2>1, <4>1, <4>2 DEF IInv
      <3>2. CASE pc = "post" /\ UNCHANGED <<pc, current>>
        BY <2>1, <3>2 DEF CloudInv
      <3>3. CASE pc' # "post"
        BY <3>3
      <3>4. QED
        BY <1>2, <3>1, <3>2, <3>3
        DEF Next, Environment, worker, Step, Goto, Keep, Parse, Notify, NotifyCheck, NotifyPost,
            Expand, Subscribed, Match, Matched, Take, CheckPermissions, PostToChannel, Finish
    <2>3. PostsOnlyToReaders'
      <3>1. CASE PostToChannel
        BY <2>1, <3>1 DEF PostToChannel, CloudInv, PostsOnlyToReaders
      <3>2. CASE posted' = posted
        BY <2>1, <3>2 DEF CloudInv, PostsOnlyToReaders
      <3>3. QED
        BY <1>2, <3>1, <3>2
        DEF Next, Environment, Step, Keep, Parse, Notify, NotifyCheck, NotifyPost, Expand,
            Subscribed, Match, Matched, Take, CheckPermissions, Finish
    <2>4. QED
      BY <2>2, <2>3 DEF CloudInv
  <1>3. QED
    BY <1>1, <1>2

(* On a JWT cloud instance a channel gets a post only on behalf of a user  *)
(* who could read the issue.                                               *)
THEOREM CloudPosts ==
    ASSUME InstanceType = "cloud"
    PROVE  Spec => []PostsOnlyToReaders
  <1>1. Init => CloudInv
    BY DEF Init, CloudInv, PostsOnlyToReaders
  <1>2. IInv /\ CloudInv /\ [Next]_vars => CloudInv'
    BY CloudStep
  <1>3. CloudInv => PostsOnlyToReaders
    BY DEF CloudInv
  <1>4. QED
    BY <1>1, <1>2, <1>3, DeliveryConsistency, PTL DEF Spec

-----------------------------------------------------------------------------
\* Where each action of the worker leads: to the post only from a check, and
\* from a check only while the instance is installed.
LEMMA PostOnlyChecked ==
    ASSUME Step, ~installed, pc # "post"
    PROVE  pc' # "post" /\ posted' = posted
  <1> USE DEF Goto, Keep
  <1>1. ASSUME Parse \/ Notify \/ NotifyCheck \/ NotifyPost
        PROVE  pc' # "post" /\ posted' = posted
    BY <1>1 DEF Parse, Notify, NotifyCheck, NotifyPost
  <1>2. ASSUME Expand \/ Subscribed \/ Matched \/ Finish
        PROVE  pc' # "post" /\ posted' = posted
    BY <1>2 DEF Expand, Subscribed, Matched, Finish
  <1>3. ASSUME NEW s \in SubID, Match(s) \/ Take(s)
        PROVE  pc' # "post" /\ posted' = posted
    BY <1>3 DEF Match, Take
  <1>4. ASSUME CheckPermissions
        PROVE  pc' # "post" /\ posted' = posted
    BY <1>4 DEF CheckPermissions
  <1>5. ~PostToChannel
    BY DEF PostToChannel
  <1> QED
    BY <1>1, <1>2, <1>3, <1>4, <1>5 DEF Step

(* From the moment the record of the instance is gone, no subscription is  *)
(* posted to but the one whose CheckPermissions had passed: for every kind *)
(* of instance, event and set of subscriptions.                            *)
THEOREM UninstalledIsQuiet == Spec => NothingAfterUninstall
<1>1. [Next]_vars => [~installed /\ pc # "post" => pc' # "post" /\ posted' = posted]_vars
  <2> SUFFICES ASSUME Next, ~installed, pc # "post"
               PROVE  pc' # "post" /\ posted' = posted
    OBVIOUS
  <2>1. CASE Step
    BY <2>1, PostOnlyChecked
  <2>2. CASE Environment
    BY <2>2 DEF Environment, worker
  <2> QED
    BY <2>1, <2>2 DEF Next
<1> QED
  BY <1>1, PTL DEF Spec, NothingAfterUninstall

-----------------------------------------------------------------------------
(* WebhookQueue: the requests in one place, in order, with a final fate    *)

HIDE DeliveryAssumption
USE QueueAssumption

\* Receiving from the channel of a server.
LEMMA TailFacts ==
    ASSUME NEW q \in Seq(Delivery), q # <<>>
    PROVE  /\ Head(q) \in Delivery
           /\ Head(q) = q[1]
           /\ 1 \in DOMAIN q
           /\ Tail(q) \in Seq(Delivery)
           /\ Len(Tail(q)) = Len(q) - 1
           /\ \A i \in DOMAIN Tail(q) : i + 1 \in DOMAIN q /\ i + 1 # 1 /\ Tail(q)[i] = q[i + 1]
           /\ \A i \in DOMAIN q : i # 1 => i - 1 \in DOMAIN Tail(q) /\ Tail(q)[i - 1] = q[i]
  OBVIOUS

\* Sending to it.
LEMMA AppendFacts ==
    ASSUME NEW q \in Seq(Delivery), NEW d \in Delivery
    PROVE  /\ Append(q, d) \in Seq(Delivery)
           /\ Len(Append(q, d)) = Len(q) + 1
           /\ \A i \in DOMAIN Append(q, d) :
                 \/ i \in DOMAIN q /\ Append(q, d)[i] = q[i]
                 \/ i = Len(q) + 1 /\ Append(q, d)[i] = d
           /\ \A i \in DOMAIN q : i \in DOMAIN Append(q, d) /\ Append(q, d)[i] = q[i]
           /\ Len(q) + 1 \in DOMAIN Append(q, d) /\ Append(q, d)[Len(q) + 1] = d
  OBVIOUS

LEMMA EmptyFacts ==
    /\ <<>> \in Seq(Delivery)
    /\ Len(<<>>) = 0
    /\ DOMAIN <<>> = {}
  OBVIOUS

-----------------------------------------------------------------------------
LEMMA QueueInitInv == QueueInit => QueueInv
  BY EmptyFacts DEF QueueInit, QueueInv, QueueTypeOK, Reply, Fate, Idle, InOnePlace, QueueDistinct,
     WorkDistinct, QueueApartFromWork, HeldIsAccepted, Holds

LEMMA QueueTypeStep == QueueTypeOK /\ [QueueNext]_queueVars => QueueTypeOK'
  <1> SUFFICES ASSUME QueueTypeOK, [QueueNext]_queueVars PROVE QueueTypeOK'
    OBVIOUS
  <1> USE DEF QueueTypeOK
  <1>1. CASE \E d \in Delivery : Refuse(d) \/ Answer(d)
    BY <1>1 DEF Refuse, Answer, Reply
  <1>2. ASSUME NEW s \in Server, NEW d \in Delivery, Enqueue(s, d)
        PROVE  QueueTypeOK'
    BY <1>2, AppendFacts DEF Enqueue, Reply, Fate
  <1>3. ASSUME NEW s \in Server, NEW d \in Delivery, QueueFull(s, d)
        PROVE  QueueTypeOK'
    BY <1>3 DEF QueueFull, Reply
  <1>4. ASSUME NEW s \in Server, NEW w \in Worker, TakeRequest(s, w)
        PROVE  QueueTypeOK'
    BY <1>4, TailFacts, AppendFacts DEF TakeRequest
  <1>5. ASSUME NEW s \in Server, NEW w \in Worker, FinishRequest(s, w)
        PROVE  QueueTypeOK'
    BY <1>5 DEF FinishRequest, Fate
  <1>6. ASSUME NEW s \in Server, Down(s)
        PROVE  QueueTypeOK'
    BY <1>6, EmptyFacts DEF Down, Idle, Fate
  <1>7. ASSUME NEW s \in Server, Activate(s)
        PROVE  QueueTypeOK'
    BY <1>7 DEF Activate
  <1>8. CASE UNCHANGED queueVars
    BY <1>8 DEF queueVars
  <1>9. QED
    BY <1>1, <1>2, <1>3, <1>4, <1>5, <1>6, <1>7, <1>8 DEF QueueNext, Panic, Stop

\* Steps that move no request and change no fate.
LEMMA FrameStep ==
    ASSUME QueueInv, UNCHANGED <<fate, queue, working>>
    PROVE  InOnePlace'
  BY DEF QueueInv, InOnePlace, QueueDistinct, WorkDistinct, QueueApartFromWork,
     HeldIsAccepted, Holds

\* A request that is put into a channel was nowhere before.
LEMMA EnqueueStep ==
    ASSUME QueueInv, NEW s \in Server, NEW d \in Delivery, Enqueue(s, d)
    PROVE  InOnePlace'
  <1>0. QueueTypeOK /\ QueueDistinct /\ WorkDistinct /\ QueueApartFromWork /\ HeldIsAccepted
    BY DEF QueueInv, InOnePlace
  <1>1. fate[d] = "none" /\ \A t \in Server : ~Holds(t, d)
    BY <1>0 DEF Enqueue, QueueInv, HeldIsAccepted
  <1>2. \A t \in Server : t # s => queue'[t] = queue[t]
    BY <1>0 DEF Enqueue, QueueTypeOK
  <1>3. queue'[s] = Append(queue[s], d) /\ queue[s] \in Seq(Delivery) /\ working' = working
    BY <1>0 DEF Enqueue, QueueTypeOK
  <1>4. \A i \in DOMAIN queue'[s] :
           \/ i \in DOMAIN queue[s] /\ queue'[s][i] = queue[s][i]
           \/ i = Len(queue[s]) + 1 /\ queue'[s][i] = d
    BY <1>3, AppendFacts
  <1>5. \A i \in DOMAIN queue[s] : i \in DOMAIN queue'[s] /\ queue'[s][i] = queue[s][i]
    BY <1>3, AppendFacts
  <1>6. Len(queue[s]) + 1 \in DOMAIN queue'[s] /\ queue'[s][Len(queue[s]) + 1] = d
    BY <1>3, AppendFacts
  <1>7. QueueDistinct'
    <2>1. \A t \in Server : \A i \in DOMAIN queue[t] : queue[t][i] # d
      BY <1>1 DEF Holds
    <2>2. Len(queue[s]) + 1 \notin DOMAIN queue[s]
      BY <1>3
    <2>3. QED
      BY <1>0, <1>2, <1>4, <2>1, <2>2 DEF QueueDistinct
  <1>8. QueueApartFromWork'
    BY <1>0, <1>1, <1>2, <1>3, <1>4 DEF QueueApartFromWork, Holds
  <1>9. WorkDistinct'
    BY <1>0, <1>3 DEF WorkDistinct
  <1>10. \A e \in Delivery :
            e # d => ((\E t \in Server : Holds(t, e)') <=> (\E t \in Server : Holds(t, e)))
    BY <1>2, <1>3, <1>4, <1>5 DEF Holds
  <1>11. Holds(s, d)'
    BY <1>6 DEF Holds
  <1>12. fate' = [fate EXCEPT ![d] = "accepted"]
    BY DEF Enqueue
  <1>13. HeldIsAccepted'
    BY <1>0, <1>10, <1>11, <1>12 DEF HeldIsAccepted, QueueTypeOK
  <1>14. QED
    BY <1>7, <1>8, <1>9, <1>13 DEF InOnePlace

\* The head of a channel goes to the worker and leaves the channel.
LEMMA TakeStep ==
    ASSUME QueueInv, NEW s \in Server, NEW w \in Worker, TakeRequest(s, w)
    PROVE  InOnePlace'
  <1>0. QueueTypeOK /\ QueueDistinct /\ WorkDistinct /\ QueueApartFromWork /\ HeldIsAccepted
    BY DEF QueueInv, InOnePlace
  <1>1. PICK h \in Delivery : h = queue[s][1] /\ h = Head(queue[s]) /\ 1 \in DOMAIN queue[s]
    BY <1>0, TailFacts DEF TakeRequest, QueueTypeOK
  <1>2. /\ queue' = [queue EXCEPT ![s] = Tail(queue[s])]
        /\ working' = [working EXCEPT ![s][w] = h]
        /\ working[s][w] = NoDelivery
        /\ fate' = fate
    BY <1>1 DEF TakeRequest
  <1>3. /\ queue'[s] = Tail(queue[s])
        /\ \A t \in Server : t # s => queue'[t] = queue[t]
        /\ working'[s][w] = h
        /\ \A t \in Server, v \in Worker : t # s \/ v # w => working'[t][v] = working[t][v]
    BY <1>0, <1>2 DEF QueueTypeOK
  <1>4. /\ \A i \in DOMAIN queue'[s] :
              i + 1 \in DOMAIN queue[s] /\ i + 1 # 1 /\ queue'[s][i] = queue[s][i + 1]
        /\ \A i \in DOMAIN queue[s] :
              i # 1 => i - 1 \in DOMAIN queue'[s] /\ queue'[s][i - 1] = queue[s][i]
        /\ \A i \in DOMAIN queue'[s] : i \in Nat
    BY <1>0, <1>3, TailFacts DEF TakeRequest, QueueTypeOK
  <1>5. \A t \in Server : \A i \in DOMAIN queue'[t] :
           \E j \in DOMAIN queue[t] : /\ queue'[t][i] = queue[t][j]
                                      /\ j = IF t = s THEN i + 1 ELSE i
                                      /\ t = s => j # 1
    <2> TAKE t \in Server
    <2> TAKE i \in DOMAIN queue'[t]
    <2>1. CASE t = s
      <3>1. i + 1 \in DOMAIN queue[t] /\ i + 1 # 1 /\ queue'[t][i] = queue[t][i + 1]
        BY <1>4, <2>1
      <3>2. QED
        BY <2>1, <3>1
    <2>2. CASE t # s
      BY <1>3, <2>2
    <2>3. QED
      BY <2>1, <2>2
  <1>6. QueueDistinct'
    <2> SUFFICES ASSUME NEW t \in Server, NEW u \in Server,
                        NEW i \in DOMAIN queue'[t], NEW j \in DOMAIN queue'[u],
                        queue'[t][i] = queue'[u][j]
                 PROVE  t = u /\ i = j
      BY DEF QueueDistinct
    <2>1. t = u
      BY <1>0, <1>5 DEF QueueDistinct
    <2>2. CASE t = s
      BY <1>0, <1>4, <2>1, <2>2 DEF QueueDistinct
    <2>3. CASE t # s
      BY <1>0, <1>3, <2>1, <2>3 DEF QueueDistinct
    <2>4. QED
      BY <2>1, <2>2, <2>3
  <1>7. WorkDistinct'
    BY <1>0, <1>1, <1>3 DEF WorkDistinct, QueueApartFromWork
  <1>8. QueueApartFromWork'
    <2> SUFFICES ASSUME NEW t \in Server, NEW u \in Server, NEW v \in Worker,
                        NEW i \in DOMAIN queue'[t]
                 PROVE  queue'[t][i] # working'[u][v]
      BY DEF QueueApartFromWork
    <2>1. PICK j \in DOMAIN queue[t] : queue'[t][i] = queue[t][j] /\ (t = s => j # 1)
      BY <1>5
    <2>2. CASE u = s /\ v = w
      BY <1>0, <1>1, <1>3, <2>1, <2>2 DEF QueueDistinct
    <2>3. CASE ~(u = s /\ v = w)
      BY <1>0, <1>3, <2>1, <2>3 DEF QueueApartFromWork
    <2>4. QED
      BY <2>2, <2>3
  <1>9. \A e \in Delivery : (\E t \in Server : Holds(t, e)') <=> (\E t \in Server : Holds(t, e))
    <2> TAKE e \in Delivery
    <2>1. ASSUME NEW t \in Server, Holds(t, e)'
          PROVE  \E u \in Server : Holds(u, e)
      <3>1. CASE \E i \in DOMAIN queue'[t] : queue'[t][i] = e
        BY <1>5, <3>1 DEF Holds
      <3>2. CASE \E v \in Worker : working'[t][v] = e
        BY <1>1, <1>3, <3>2 DEF Holds
      <3>3. QED
        BY <2>1, <3>1, <3>2 DEF Holds
    <2>2. ASSUME NEW t \in Server, Holds(t, e)
          PROVE  \E u \in Server : Holds(u, e)'
      <3>1. CASE \E i \in DOMAIN queue[t] : queue[t][i] = e
        <4>1. PICK i \in DOMAIN queue[t] : queue[t][i] = e
          BY <3>1
        <4>2. CASE t = s /\ i = 1
          BY <1>1, <1>3, <4>1, <4>2 DEF Holds
        <4>3. CASE t = s /\ i # 1
          BY <1>4, <4>1, <4>3 DEF Holds
        <4>4. CASE t # s
          BY <1>3, <4>1, <4>4 DEF Holds
        <4>5. QED
          BY <4>2, <4>3, <4>4
      <3>2. CASE \E v \in Worker : working[t][v] = e
        BY <1>2, <1>3, <3>2 DEF Holds
      <3>3. QED
        BY <2>2, <3>1, <3>2 DEF Holds
    <2>3. QED
      BY <2>1, <2>2
  <1>10. HeldIsAccepted'
    BY <1>0, <1>2, <1>9 DEF HeldIsAccepted
  <1>11. QED
    BY <1>6, <1>7, <1>8, <1>10 DEF InOnePlace

\* A worker lets go of the one request it has.
LEMMA FinishStep ==
    ASSUME QueueInv, NEW s \in Server, NEW w \in Worker, FinishRequest(s, w)
    PROVE  InOnePlace'
  <1>0. QueueTypeOK /\ QueueDistinct /\ WorkDistinct /\ QueueApartFromWork /\ HeldIsAccepted
    BY DEF QueueInv, InOnePlace
  <1>1. PICK d \in Delivery : d = working[s][w]
    BY <1>0 DEF FinishRequest, QueueTypeOK
  <1>2. /\ queue' = queue
        /\ working'[s][w] = NoDelivery
        /\ \A t \in Server, v \in Worker : t # s \/ v # w => working'[t][v] = working[t][v]
        /\ fate'[d] # "accepted"
        /\ \A e \in Delivery : e # d => fate'[e] = fate[e]
    BY <1>0, <1>1 DEF FinishRequest, QueueTypeOK
  <1>3. \A t \in Server : ~Holds(t, d)'
    BY <1>0, <1>1, <1>2 DEF WorkDistinct, QueueApartFromWork, Holds
  <1>4. \A e \in Delivery, t \in Server : e # d => (Holds(t, e)' <=> Holds(t, e))
    BY <1>1, <1>2 DEF Holds
  <1>5. HeldIsAccepted'
    BY <1>0, <1>2, <1>3, <1>4 DEF HeldIsAccepted
  <1>6. QueueDistinct'
    BY <1>0, <1>2 DEF QueueDistinct
  <1>7. WorkDistinct'
    BY <1>0, <1>2 DEF WorkDistinct
  <1>8. QueueApartFromWork'
    <2>1. \A t \in Server : \A i \in DOMAIN queue[t] : queue[t][i] \in Delivery
      BY <1>0 DEF QueueTypeOK
    <2>2. QED
      BY <1>0, <1>2, <2>1 DEF QueueApartFromWork
  <1>9. QED
    BY <1>5, <1>6, <1>7, <1>8 DEF InOnePlace

\* The process ends: what it held is lost, what the others hold is not.
LEMMA DownStep ==
    ASSUME QueueInv, NEW s \in Server, Down(s)
    PROVE  InOnePlace'
  <1>0. QueueTypeOK /\ QueueDistinct /\ WorkDistinct /\ QueueApartFromWork /\ HeldIsAccepted
    BY DEF QueueInv, InOnePlace
  <1>1. /\ queue'[s] = <<>>
        /\ \A t \in Server : t # s => queue'[t] = queue[t] /\ working'[t] = working[t]
        /\ \A v \in Worker : working'[s][v] = NoDelivery
    BY <1>0 DEF Down, Idle, QueueTypeOK
  <1>2. DOMAIN queue'[s] = {}
    BY <1>1, EmptyFacts
  <1>3. \A t \in Server : \A i \in DOMAIN queue[t] : queue[t][i] \in Delivery
    BY <1>0 DEF QueueTypeOK
  <1>4. QueueDistinct'
    BY <1>0, <1>1, <1>2 DEF QueueDistinct
  <1>5. WorkDistinct'
    BY <1>0, <1>1 DEF WorkDistinct
  <1>6. QueueApartFromWork'
    BY <1>0, <1>1, <1>2, <1>3 DEF QueueApartFromWork
  <1>7. \A e \in Delivery : ~Holds(s, e)'
    BY <1>1, <1>2 DEF Holds
  <1>8. \A e \in Delivery, t \in Server : t # s => (Holds(t, e)' <=> Holds(t, e))
    BY <1>1 DEF Holds
  <1>9. \A e \in Delivery, t \in Server : Holds(s, e) /\ Holds(t, e) => t = s
    BY <1>0 DEF QueueDistinct, WorkDistinct, QueueApartFromWork, Holds
  <1>10. \A e \in Delivery : fate'[e] = IF Holds(s, e) THEN "lost" ELSE fate[e]
    BY DEF Down
  <1>11. HeldIsAccepted'
    BY <1>0, <1>7, <1>8, <1>9, <1>10 DEF HeldIsAccepted
  <1>12. QED
    BY <1>4, <1>5, <1>6, <1>11 DEF InOnePlace

\* The remaining conjuncts of QueueInv.
LEMMA BoundStep ==
    ASSUME QueueInv, [QueueNext]_queueVars
    PROVE  /\ \A t \in Server : Len(queue'[t]) <= BufferSize
           /\ \A t \in Server \ up' : queue'[t] = <<>> /\ working'[t] = Idle
           /\ \A e \in Delivery : reply'[e] \in {"none", "forbidden", "error"} => fate'[e] = "none"
  <1> USE DEF QueueInv, QueueTypeOK
  <1> DEFINE Goal == /\ \A t \in Server : Len(queue'[t]) <= BufferSize
                     /\ \A t \in Server \ up' : queue'[t] = <<>> /\ working'[t] = Idle
                     /\ \A e \in Delivery : reply'[e] \in {"none", "forbidden", "error"} => fate'[e] = "none"
  <1>1. ASSUME NEW d \in Delivery, Refuse(d) \/ Answer(d)
        PROVE  Goal
    BY <1>1 DEF Refuse, Answer
  <1>2. ASSUME NEW s \in Server, NEW d \in Delivery, Enqueue(s, d)
        PROVE  Goal
    BY <1>2, AppendFacts DEF Enqueue
  <1>3. ASSUME NEW s \in Server, NEW d \in Delivery, QueueFull(s, d)
        PROVE  Goal
    BY <1>3 DEF QueueFull
  <1>4. ASSUME NEW s \in Server, NEW w \in Worker, TakeRequest(s, w)
        PROVE  Goal
    BY <1>4, TailFacts DEF TakeRequest
  <1>5. ASSUME NEW s \in Server, NEW w \in Worker, FinishRequest(s, w)
        PROVE  Goal
    <2>1. working[s][w] \in Delivery /\ fate[working[s][w]] = "accepted"
      BY <1>5 DEF FinishRequest, InOnePlace, HeldIsAccepted, Holds
    <2>2. QED
      BY <1>5, <2>1 DEF FinishRequest
  <1>6. ASSUME NEW s \in Server, Down(s)
        PROVE  Goal
    <2>1. \A e \in Delivery : Holds(s, e) => fate[e] = "accepted"
      BY DEF InOnePlace, HeldIsAccepted
    <2>2. \A e \in Delivery : fate'[e] = "none" \/ fate[e] # "none"
      BY <1>6, <2>1 DEF Down
    <2>3. QED
      BY <1>6, <2>2, EmptyFacts DEF Down
  <1>7. ASSUME NEW s \in Server, Activate(s)
        PROVE  Goal
    BY <1>7 DEF Activate
  <1>8. CASE UNCHANGED queueVars
    BY <1>8 DEF queueVars
  <1>9. QED
    BY <1>1, <1>2, <1>3, <1>4, <1>5, <1>6, <1>7, <1>8 DEF QueueNext, Panic, Stop

LEMMA QueueNextInv == QueueInv /\ [QueueNext]_queueVars => QueueInv'
  <1> SUFFICES ASSUME QueueInv, [QueueNext]_queueVars PROVE QueueInv'
    OBVIOUS
  <1>1. QueueTypeOK'
    BY QueueTypeStep DEF QueueInv
  <1>2. InOnePlace'
    <2>1. ASSUME NEW d \in Delivery, Refuse(d) \/ Answer(d)
          PROVE  UNCHANGED <<fate, queue, working>>
      BY <2>1 DEF Refuse, Answer
    <2>2. ASSUME NEW s \in Server, NEW d \in Delivery, QueueFull(s, d)
          PROVE  UNCHANGED <<fate, queue, working>>
      BY <2>2 DEF QueueFull
    <2>3. ASSUME NEW s \in Server, Activate(s)
          PROVE  UNCHANGED <<fate, queue, working>>
      BY <2>3 DEF Activate
    <2>4. CASE UNCHANGED queueVars
      BY <2>4, FrameStep DEF queueVars
    <2>5. QED
      BY <2>1, <2>2, <2>3, <2>4, FrameStep, EnqueueStep, TakeStep, FinishStep, DownStep
      DEF QueueNext, Panic, Stop
  <1>3. QED
    BY <1>1, <1>2, BoundStep DEF QueueInv

(* The inductive invariant holds in every state.                           *)
THEOREM QueueConsistency == QueueSpec => []QueueInv
  BY QueueInitInv, QueueNextInv, PTL DEF QueueSpec

(* An accepted request is in one queue or with one worker until it is      *)
(* processed or its server goes down: it is processed at most once.        *)
THEOREM AcceptedOnce == QueueSpec => []InOnePlace
  BY QueueConsistency, PTL DEF QueueInv

LEMMA FateStep ==
    ASSUME QueueInv, [QueueNext]_queueVars
    PROVE  \A d \in Delivery :
              /\ fate[d] \in {"processed", "failed", "lost"} => fate'[d] = fate[d]
              /\ fate[d] = "none" => fate'[d] \in {"none", "accepted"}
  <1> USE DEF QueueInv, QueueTypeOK
  <1> DEFINE Final == \A e \in Delivery :
              /\ fate[e] \in {"processed", "failed", "lost"} => fate'[e] = fate[e]
              /\ fate[e] = "none" => fate'[e] \in {"none", "accepted"}
  <1>1. ASSUME NEW d \in Delivery, Refuse(d) \/ Answer(d)
        PROVE  Final
    BY <1>1 DEF Refuse, Answer
  <1>2. ASSUME NEW s \in Server, NEW d \in Delivery, Enqueue(s, d) \/ QueueFull(s, d)
        PROVE  Final
    BY <1>2 DEF Enqueue, QueueFull
  <1>3. ASSUME NEW s \in Server, NEW w \in Worker, TakeRequest(s, w)
        PROVE  Final
    BY <1>3 DEF TakeRequest
  <1>4. ASSUME NEW s \in Server, NEW w \in Worker, FinishRequest(s, w)
        PROVE  Final
    <2>1. working[s][w] \in Delivery /\ fate[working[s][w]] = "accepted"
      BY <1>4 DEF FinishRequest, InOnePlace, HeldIsAccepted, Holds
    <2>2. QED
      BY <1>4, <2>1 DEF FinishRequest
  <1>5. ASSUME NEW s \in Server, Down(s)
        PROVE  Final
    <2>1. \A e \in Delivery : Holds(s, e) => fate[e] = "accepted"
      BY DEF InOnePlace, HeldIsAccepted
    <2>2. QED
      BY <1>5, <2>1 DEF Down
  <1>6. ASSUME NEW s \in Server, Activate(s)
        PROVE  Final
    BY <1>6 DEF Activate
  <1>7. CASE UNCHANGED queueVars
    BY <1>7 DEF queueVars
  <1>8. QED
    BY <1>1, <1>2, <1>3, <1>4, <1>5, <1>6, <1>7 DEF QueueNext, Panic, Stop

(* The fate of a request is final.                                         *)
THEOREM FateFinal == QueueSpec => FateIsFinal
  <1>1. QueueInv /\ [QueueNext]_queueVars =>
          [\A d \in Delivery :
              /\ fate[d] \in {"processed", "failed", "lost"} => fate'[d] = fate[d]
              /\ fate[d] = "none" => fate'[d] \in {"none", "accepted"}]_queueVars
    BY FateStep
  <1>2. QED
    BY <1>1, QueueConsistency, PTL DEF QueueSpec, FateIsFinal

-----------------------------------------------------------------------------
(* A request that is queued goes behind the requests that were started and *)
(* those that wait; one that is taken moves from the one to the other.     *)
LEMMA AppendBehind ==
    ASSUME NEW s \in Seq(Delivery), NEW q \in Seq(Delivery), NEW d \in Delivery
    PROVE  Append(s \o q, d) = s \o Append(q, d)
<1>1. Append(s \o q, d) \in Seq(Delivery) /\ s \o Append(q, d) \in Seq(Delivery)
  OBVIOUS
<1>2. Len(Append(s \o q, d)) = Len(s \o Append(q, d))
  OBVIOUS
<1>3. \A i \in 1 .. Len(Append(s \o q, d)) : Append(s \o q, d)[i] = (s \o Append(q, d))[i]
  OBVIOUS
<1> QED
  BY <1>1, <1>2, <1>3, SeqEqual

LEMMA HeadMoves ==
    ASSUME NEW s \in Seq(Delivery), NEW q \in Seq(Delivery), q # <<>>
    PROVE  s \o q = Append(s, Head(q)) \o Tail(q)
<1>1. Head(q) \in Delivery /\ Tail(q) \in Seq(Delivery)
  BY TailFacts
<1>2. s \o q \in Seq(Delivery) /\ Append(s, Head(q)) \o Tail(q) \in Seq(Delivery)
  BY <1>1
<1>3. Len(s \o q) = Len(Append(s, Head(q)) \o Tail(q))
  BY <1>1, TailFacts
<1>4. \A i \in 1 .. Len(s \o q) : (s \o q)[i] = (Append(s, Head(q)) \o Tail(q))[i]
  BY <1>1, TailFacts
<1> QED
  BY <1>2, <1>3, <1>4, SeqEqual

LEMMA OrderInit == QueueInit => StartedInOrder
  BY DEF QueueInit, StartedInOrder

LEMMA OrderStep == QueueTypeOK /\ StartedInOrder /\ [QueueNext]_queueVars => StartedInOrder'
  <1> SUFFICES ASSUME QueueTypeOK, StartedInOrder, [QueueNext]_queueVars,
                      NEW t \in Server
               PROVE  accepted'[t] = started'[t] \o queue'[t]
    BY DEF StartedInOrder
  <1>0. /\ accepted[t] = started[t] \o queue[t]
        /\ started[t] \in Seq(Delivery) /\ queue[t] \in Seq(Delivery)
    BY DEF StartedInOrder, QueueTypeOK
  <1>1. CASE UNCHANGED <<queue, accepted, started>>
    BY <1>0, <1>1
  <1>2. ASSUME NEW s \in Server, NEW d \in Delivery, Enqueue(s, d)
        PROVE  accepted'[t] = started'[t] \o queue'[t]
    <2>1. started' = started
      BY <1>2 DEF Enqueue
    <2>2. CASE t = s
      <3>1. accepted'[t] = Append(accepted[t], d) /\ queue'[t] = Append(queue[t], d)
        BY <1>2, <2>2 DEF Enqueue, QueueTypeOK
      <3>2. Append(started[t] \o queue[t], d) = started[t] \o Append(queue[t], d)
        BY <1>0, AppendBehind
      <3> QED
        BY <1>0, <2>1, <3>1, <3>2, Zenon
    <2>3. CASE t # s
      BY <1>0, <1>2, <2>1, <2>3 DEF Enqueue, QueueTypeOK
    <2> QED
      BY <2>2, <2>3
  <1>3. ASSUME NEW s \in Server, NEW w \in Worker, TakeRequest(s, w)
        PROVE  accepted'[t] = started'[t] \o queue'[t]
    <2>1. accepted' = accepted
      BY <1>3 DEF TakeRequest
    <2>2. CASE t = s
      <3>1. /\ started'[t] = Append(started[t], Head(queue[t]))
            /\ queue'[t] = Tail(queue[t])
            /\ queue[t] # <<>>
        BY <1>3, <2>2 DEF TakeRequest, QueueTypeOK
      <3> QED
        BY <1>0, <2>1, <3>1, HeadMoves
    <2>3. CASE t # s
      BY <1>0, <1>3, <2>1, <2>3 DEF TakeRequest, QueueTypeOK
    <2> QED
      BY <2>2, <2>3
  <1>4. ASSUME NEW s \in Server, Down(s)
        PROVE  accepted'[t] = started'[t] \o queue'[t]
    <2>1. CASE t = s
      BY <1>4, <2>1 DEF Down, QueueTypeOK
    <2>2. CASE t # s
      BY <1>0, <1>4, <2>2 DEF Down, QueueTypeOK
    <2> QED
      BY <2>1, <2>2
  <1> QED
    BY <1>1, <1>2, <1>3, <1>4
    DEF QueueNext, queueVars, Refuse, Answer, QueueFull, FinishRequest, Activate, Panic, Stop

(* The workers of a server start the requests in the order in which it     *)
(* accepted them, and skip none, whatever the number of workers and        *)
(* whatever the other servers do.                                          *)
THEOREM StartOrder == QueueSpec => []StartedInOrder
<1>1. QueueInv => QueueTypeOK
  BY DEF QueueInv
<1> QED
  BY <1>1, OrderInit, OrderStep, QueueConsistency, PTL DEF QueueSpec
==============================================================================
