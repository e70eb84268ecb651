---------------------------- MODULE WebhookEvents ----------------------------
(***************************************************************************)
(* What a webhook of Jira means: the events and the notification that      *)
(* ParseWebhook makes of the payload, the subscriptions whose filters let  *)
(* an event through (matchesSubsciptionFilters, but for the roles, which   *)
(* module WebhookDelivery has), and the events a legacy webhook posts.     *)
(*                                                                         *)
(* These are functions of their inputs; a behavior takes one input and     *)
(* computes.  Its parts have names of their own (EventsSpec), so that a    *)
(* module can extend this one and WebhookDelivery.  Names, texts and IDs   *)
(* are left out where nothing depends on them; a changed field is known by *)
(* its name, whether it was set before and whether it is set now.          *)
(***************************************************************************)
EXTENDS Naturals, Sequences

CONSTANTS
    Value,      \* values of the fields of issues
    MaxItems,   \* bound: the length of a changelog
    MaxFilters, \* bound: how many fields a subscription filters
    NoResult    \* nothing computed yet

ASSUME EventsAssumption == MaxItems \in Nat /\ MaxFilters \in Nat

VARIABLES input, result

eventsVars == <<input, result>>

-----------------------------------------------------------------------------
(* Payloads and their events                                               *)

\* The event of a field that changed (eventUpdatedStatus, ...).
EventOf == [f \in {"status", "priority", "summary", "description", "Sprint", "Rank",
                   "Attachment", "labels", "assignee", "issuetype", "Fix Version",
                   "Version", "reporter", "Component"} |->
    CASE f = "issuetype"   -> "issue_type"
      [] f = "Fix Version" -> "fix_version"
      [] f = "Version"     -> "affects_version"
      [] f = "Component"   -> "components"
      [] OTHER -> f]

UpdatedEvent == {EventOf[f] : f \in DOMAIN EventOf} \cup {"reopened", "resolved", "custom"}

CommentEvent == {"created_comment", "updated_comment", "deleted_comment"}

Event == UpdatedEvent \cup CommentEvent \cup {"created", "deleted", "deleted_unresolved"}

\* An entry of the changelog: "My field" is a custom field, as Sprint and Rank
\* are in Jira; "Workflow" stands for what is not supported.
Item == [field: DOMAIN EventOf \cup {"resolution", "My field", "Workflow"},
         from: BOOLEAN, to: BOOLEAN]

\* An edit lists each field once.
Items == {s \in UNION {[1 .. n -> Item] : n \in 0 .. MaxItems} :
             \A j, k \in DOMAIN s : s[j].field = s[k].field => j = k}

EventName == {"assigned", "updated", "commented", "comment_edited", "comment_deleted", "other"}

\* What ParseWebhook looks at: the event and, of an update, its type's name
\* ("updated" for those that are parsed alike); whether the issue has fields
\* and an ID; the changelog; the comment and whether its author is known;
\* the issue's assignee, seen from the user who made the change.
Payload ==
    [event: {"created", "deleted", "comment_created", "comment_updated", "comment_deleted",
             "worklog", "other", "none"},
     name: {"other"}, fields: BOOLEAN, id: BOOLEAN, items: {<<>>},
     comment: {"none"}, author: BOOLEAN, assignee: {"nobody", "user", "another"},
     resolved: BOOLEAN]
    \cup
    [event: {"updated"}, name: EventName, fields: {TRUE}, id: BOOLEAN, items: Items,
     comment: {"none", "new", "edited"}, author: {TRUE},
     assignee: {"nobody", "user", "another"}, resolved: {FALSE}]

Webhook(events, notifies) == [is |-> "webhook", events |-> events, notifies |-> notifies]

Failed(how) == [is |-> how, events |-> {}, notifies |-> FALSE]

\* appendNotificationForAssignee
AppendsNotification(p) == p.assignee = "another"

\* The event of an entry of the changelog, if it is one that is supported.
ItemEvents(i) ==
    CASE i.field = "resolution" /\ i.from /\ ~i.to -> {"reopened"}
      [] i.field = "resolution" /\ ~i.from /\ i.to -> {"resolved"}
      [] i.field = "My field" \/ (i.field \in {"Sprint", "Rank"} /\ ~i.to) -> {"custom"}
      [] i.field \in DOMAIN EventOf /\ (i.field \in {"Sprint", "Rank"} => i.to) -> {EventOf[i.field]}
      [] OTHER -> {}

\* mergeWebhookEvents: all the events, and none of the notifications.
MergeWebhookEvents(p, ks) == Webhook(UNION {ItemEvents(p.items[k]) : k \in ks}, FALSE)

ParseWebhookAssigned(p) == Webhook({"assignee"}, AppendsNotification(p))

\* Mutant: any entry besides the assignee's makes the events be merged.
ParseWebhookAll(p) ==
    IF p.items = <<>> THEN Failed("unsupported")
    ELSE IF Len(p.items) = 1 /\ p.items[1].field = "assignee" THEN ParseWebhookAssigned(p)
    ELSE MergeWebhookEvents(p, DOMAIN p.items)

ParseWebhookChangeLog(p) ==
    LET ks == {k \in DOMAIN p.items : ItemEvents(p.items[k]) # {}}
    IN  IF ks = {} THEN Failed("unsupported")
        ELSE IF \A j, k \in ks : j = k
        THEN LET k == CHOOSE k \in ks : TRUE
             IN  IF p.items[k].field = "assignee" THEN ParseWebhookAssigned(p)
                 ELSE Webhook(ItemEvents(p.items[k]), FALSE)
        ELSE MergeWebhookEvents(p, ks)

\* The comment events of a Jira server come without the issue's ID.
ParseWebhookComment(p, event) ==
    IF ~p.id THEN Failed("ignored")
    ELSE IF event = "deleted_comment" /\ ~p.author THEN Failed("error")
    ELSE Webhook({event}, FALSE)

ParseWebhookUnspecified(p) ==
    IF p.items # <<>> THEN ParseWebhookChangeLog(p)
    ELSE CASE p.comment = "new" -> ParseWebhookComment(p, "created_comment")
           [] p.comment = "edited" -> ParseWebhookComment(p, "updated_comment")
           [] p.comment = "none" -> Failed("unsupported")

\* The first entry of an assignment's changelog is taken unchecked.
ParseWebhookUpdated(p) ==
    CASE p.name = "assigned" -> IF p.items = <<>> THEN Failed("panic") ELSE ParseWebhookAssigned(p)
      [] p.name = "updated" -> ParseWebhookChangeLog(p)
      [] p.name = "commented" -> ParseWebhookComment(p, "created_comment")
      [] p.name = "comment_edited" -> ParseWebhookComment(p, "updated_comment")
      [] p.name = "comment_deleted" -> ParseWebhookComment(p, "deleted_comment")
      [] p.name = "other" -> ParseWebhookUnspecified(p)

ParseWebhookDeleted(p) ==
    Webhook({"deleted"} \cup (IF p.resolved THEN {} ELSE {"deleted_unresolved"}), FALSE)

ParseWebhook(p) ==
    IF p.event = "none" THEN Failed("error")
    ELSE IF ~p.fields THEN Failed("ignored")
    ELSE CASE p.event = "created" -> Webhook({"created"}, AppendsNotification(p))
           [] p.event = "deleted" -> ParseWebhookDeleted(p)
           [] p.event = "updated" -> ParseWebhookUpdated(p)
           [] p.event = "comment_created" -> ParseWebhookComment(p, "created_comment")
           [] p.event = "comment_updated" -> ParseWebhookComment(p, "updated_comment")
           [] p.event = "comment_deleted" -> ParseWebhookComment(p, "deleted_comment")
           [] p.event \in {"worklog", "other"} -> Failed("unsupported")

-----------------------------------------------------------------------------
(* The filters of a subscription                                           *)

\* Mutant: only what is called an update counts as one.
AnyUpdateNoComment(wanted, events) ==
    wanted \cap events # {} \/ ("updated_any" \in wanted /\ events \cap UpdatedEvent # {})

\* "Issue Updated: Any" takes the events whose names begin with event_updated
\* or end in comment.
MatchesEvents(wanted, events) ==
    \/ wanted \cap events # {}
    \/ "updated_any" \in wanted /\ events \cap (UpdatedEvent \cup CommentEvent) # {}

Inclusion == {"include_any", "include_all", "exclude_any", "empty", ""}

Filter == [key: {"security", "field"}, inclusion: Inclusion, values: SUBSET Value]

\* getIssueCustomFieldValue: a string or an object with an ID is one value, a
\* list is all its values, and none when one of them has no ID.
CustomField == [shape: {"absent", "one", "many"}, ids: SUBSET Value, broken: BOOLEAN]

WellFormed(c) ==
    /\ c.shape = "absent" => c.ids = {} /\ ~c.broken
    /\ c.shape = "one" => \E v \in Value : c.ids \subseteq {v} /\ (c.ids = {} <=> c.broken)

FieldValue(c) == IF c.broken THEN {} ELSE c.ids

IsValidFieldInclusion(values, value, inclusion) ==
    CASE inclusion = "include_any" -> values \cap value # {}
      [] inclusion = "include_all" -> values \subseteq value
      [] inclusion = "exclude_any" -> values \cap value = {}
      [] inclusion = "empty" -> value = {}

\* Mutant: an "exclude" of security levels stays one.
SecurityAsIs(f, emptySecurity) == f.inclusion

\* With SecurityLevelEmptyForJiraSubscriptions, "exclude" means "empty".
SecurityInclusion(f, emptySecurity) ==
    IF f.key = "security" /\ f.inclusion = "exclude_any" /\ emptySecurity
    THEN "empty" ELSE f.inclusion

\* matchesSubsciptionFilters, of an issue of a type and project that match:
\* its two fields and the subscription's filters.
MatchesFields(filters, issue, emptySecurity) ==
    /\ \A k \in DOMAIN filters :
          LET f == filters[k]
          IN  /\ f.inclusion # "" /\ (f.values = {} => f.inclusion = "empty")
              /\ IsValidFieldInclusion(f.values, FieldValue(issue[f.key]),
                                       SecurityInclusion(f, emptySecurity))
    /\ emptySecurity /\ (\A k \in DOMAIN filters : filters[k].key # "security") =>
          FieldValue(issue["security"]) = {}

Issue == {i \in [{"security", "field"} -> CustomField] :
             /\ \A key \in {"security", "field"} : WellFormed(i[key])
             \* Jira sends an issue's level, if it has one, with its ID.
             /\ i["security"].shape # "many" /\ ~i["security"].broken}

Filters == UNION {[1 .. n -> Filter] : n \in 0 .. MaxFilters}

-----------------------------------------------------------------------------
(* The legacy webhook of a channel                                         *)

Masks == [updated_attachment |-> {"Attachment"}, updated_description |-> {"description"},
          updated_labels |-> {"labels"}, updated_prioity |-> {"priority"},
          updated_rank |-> {"Rank"}, updated_sprint |-> {"Sprint"},
          updated_status |-> {"status"}, updated_summary |-> {"summary"},
          updated_comments |-> CommentEvent]

\* What every legacy webhook posts.
DefaultEvents == {"created", "reopened", "resolved", "deleted_unresolved", "assignee"}

\* updated_all: the versions an issue affects, its reporter, its components
\* and the custom fields are not in the list.
AllEvents == Event \ {"affects_version", "reporter", "components", "custom"}

\* httpWebhook: what is posted of an event, with some of the parameters.
Posts(params, events) ==
    (DefaultEvents \cup UNION {IF q = "updated_all" THEN AllEvents ELSE Masks[q] : q \in params})
        \cap events # {}

-----------------------------------------------------------------------------
EventsInit ==
    /\ \/ \E p \in Payload : input = [task |-> "parse", payload |-> p]
       \/ \E fs \in Filters, i \in Issue, e \in BOOLEAN :
             input = [task |-> "match", filters |-> fs, issue |-> i, emptySecurity |-> e]
    /\ result = NoResult

ParseInput ==
    /\ result = NoResult
    /\ input.task = "parse"
    /\ result' = ParseWebhook(input.payload)
    /\ UNCHANGED input

MatchInput ==
    /\ result = NoResult
    /\ input.task = "match"
    /\ result' = [matches |-> MatchesFields(input.filters, input.issue, input.emptySecurity)]
    /\ UNCHANGED input

EventsNext == ParseInput \/ MatchInput

EventsSpec == EventsInit /\ [][EventsNext]_eventsVars

Parsed  == result # NoResult /\ input.task = "parse"
Decided == result # NoResult /\ input.task = "match"

-----------------------------------------------------------------------------
(* An edit in Jira that changes several fields is all its changes: the     *)
(* events of the merged webhook are those of the entries of the changelog, *)
(* parsed one by one, in any order.                                        *)
MergeKeepsEvents ==
    Parsed /\ input.payload.event = "updated" /\ input.payload.name = "updated" =>
        LET p == input.payload
        IN  result.events = UNION {ParseWebhook([p EXCEPT !.items = <<p.items[k]>>]).events :
                                      k \in DOMAIN p.items}

(* readme.md: "notifications for issues where someone is mentioned or      *)
(* assigned an issue".  An assignment to somebody other than the user who  *)
(* made it notifies him, also when the changelog has fields that are not   *)
(* posted; when it has others that are, mergeWebhookEvents loses him.      *)
AssigneeNotified ==
    Parsed /\ result.is = "webhook" /\ result.events = {"assignee"}
           /\ input.payload.assignee = "another" => result.notifies

(* The options that stand for many events stand for what they are called.  *)
(* "Issue Updated: Any" (edit_channel_subscription.tsx) takes what Jira    *)
(* reports as an update of the issue or as a comment, and nothing else;    *)
(* what a legacy webhook posts with any one parameter it posts with        *)
(* updated_all, too ("all events", webhook_http.go).                       *)
OptionsKept ==
    Parsed /\ result.is = "webhook" =>
        /\ MatchesEvents({"updated_any"}, result.events)
              <=> input.payload.event \notin {"created", "deleted"}
        /\ \A q \in DOMAIN Masks :
              Posts({q}, result.events) => Posts({"updated_all"}, result.events)

(* plugin.json, SecurityLevelEmptyForJiraSubscriptions: "Subscriptions     *)
(* will only include issues that have a security level assigned if the     *)
(* appropriate security level has been included as a filter", whatever     *)
(* filters the subscription got while the setting was off.                 *)
SecurityKept ==
    Decided /\ result.matches /\ input.emptySecurity =>
        \A level \in input.issue["security"].ids :
            \E k \in DOMAIN input.filters :
                LET f == input.filters[k]
                IN  /\ f.key = "security" /\ level \in f.values
                    /\ f.inclusion \in {"include_any", "include_all"}
=============================================================================
