------------------------------ MODULE Feedback ------------------------------
(***************************************************************************)
(* Feedback: users write to the operator through the bot, the operator      *)
(* reads the conversation in the console and answers through the bot.       *)
(*                                                                         *)
(* Handlers run on one event loop, so what happens between two awaits is one*)
(* action.  Two handlers await Telegram between two accesses to the tables: *)
(* the one that opens feedback from the Mini App, and the reply of the      *)
(* console.  Telegram may deliver a message and still report an error.      *)
(*                                                                         *)
(* A message is a text, or an item of a media group ("album"), of which one *)
(* album stands for all; times, names, file identifiers and the marks of    *)
(* what the operator has read, which only the console counts, are left out. *)
(***************************************************************************)
EXTENDS Naturals, FiniteSets, Functions

CONSTANTS
    Users,
    Replies,        \* replies of the console in flight at once
    None,           \* NULL
    MaxStarts,      \* bound: feedback opened in all
    MaxMessages,    \* bound: rows of feedback_messages
    MaxReplies,     \* bound: answers delivered in one conversation
    MaxConversations    \* bound: feedback_conversations.id values given out

FeedbackAssumption ==
    /\ None \notin Users /\ IsFiniteSet(Replies)
    /\ {MaxStarts, MaxMessages, MaxReplies, MaxConversations} \subseteq Nat

ASSUME FeedbackAssumption

VARIABLES
    conversations,  \* feedback_conversations: a function on the ids that exist
    givenIds,       \* how many ids of conversations and of messages were given out;
                    \* history: how many times feedback was opened (prompt)
    messages,       \* rows of feedback_messages
    opening,        \* by user: start_feedback() of the Mini App that await Telegram
    replies,        \* reply_feedback() requests between two awaits
    opened,         \* history: the number of each user's last opening
    delivered       \* history: answers Telegram delivered, by conversation

vars == <<conversations, givenIds, messages, opening, replies, opened, delivered>>

Units == {"text", "album"}
Ids == 1..MaxConversations

Conversation == [user : Users, waiting : BOOLEAN, album : BOOLEAN,
                 status : {"open", "answered"}]

\* prompt: the user's last opening when the message was stored.
Message == [id : 1..MaxMessages, conversation : Ids, sender : {"user", "admin"},
            unit : Units, prompt : 0..MaxStarts]

\* reply_feedback() keeps what it has read of the conversation.
Reply == [pc : {"form", "send", "sent"}, conversation : Ids, user : Users]

NoReply == [pc |-> "idle", conversation |-> None, user |-> None]

Init ==
    /\ conversations = [i \in {} |-> None] /\ messages = {}
    /\ givenIds = [conversation |-> 0, message |-> 0, prompt |-> 0]
    /\ opening = [u \in Users |-> 0]
    /\ replies = [r \in Replies |-> NoReply]
    /\ opened = [u \in Users |-> 0]
    /\ delivered = [i \in Ids |-> 0]

Of(u) == {i \in DOMAIN conversations : conversations[i].user = u}
Rows(i) == {m \in messages : m.conversation = i}

-----------------------------------------------------------------------------
(* The user.                                                               *)

Fresh(u) == [user |-> u, waiting |-> TRUE, album |-> FALSE, status |-> "open"]

\* start_feedback_waiting(): one conversation per user, made or opened again.
Start(u) ==
    /\ givenIds.prompt < MaxStarts
    /\ opened' = [opened EXCEPT ![u] = givenIds.prompt + 1]
    /\ \/ /\ Of(u) # {}
          /\ conversations' = [i \in DOMAIN conversations |->
                                IF i \in Of(u) THEN Fresh(u) ELSE conversations[i]]
          /\ givenIds' = [givenIds EXCEPT !.prompt = @ + 1]
       \/ /\ Of(u) = {} /\ givenIds.conversation < MaxConversations
          /\ givenIds' = [givenIds EXCEPT !.prompt = @ + 1, !.conversation = @ + 1]
          /\ conversations' = [i \in DOMAIN conversations \cup {givenIds.conversation + 1} |->
                                IF i \in DOMAIN conversations THEN conversations[i] ELSE Fresh(u)]
    /\ UNCHANGED <<messages, replies, delivered>>

\* cancel_feedback_waiting()
Cancelled(u) ==
    [i \in DOMAIN conversations |->
        IF i \in Of(u) /\ conversations[i].waiting
        THEN [conversations[i] EXCEPT !.waiting = FALSE, !.album = FALSE]
        ELSE conversations[i]]

\* cmd_feedback(): the answer says that the next message goes to the operator.
StartInChat(u) ==
    /\ Start(u)
    /\ UNCHANGED opening

\* start_feedback() of the Mini App, up to the message it sends.  A user may ask again
\* before the answer.
StartInApp(u) ==
    /\ Start(u)
    /\ opening' = [opening EXCEPT ![u] = @ + 1]

\* One of the requests of the user has its answer from Telegram.
Opened(u) ==
    /\ opening[u] > 0
    /\ opening' = [opening EXCEPT ![u] = @ - 1]

AppStarted(u) ==
    /\ Opened(u)
    /\ UNCHANGED <<conversations, givenIds, messages, replies, opened, delivered>>

\* The message could not be sent: the wait is cancelled, whoever began it.
AppFailed(u) ==
    /\ Opened(u)
    /\ conversations' = Cancelled(u)
    /\ UNCHANGED <<givenIds, messages, replies, opened, delivered>>

\* cmd_cancel_feedback()
CancelInChat(u) ==
    /\ conversations' = Cancelled(u)
    /\ UNCHANGED <<givenIds, messages, opening, replies, opened, delivered>>

\* is_feedback_waiting(), and the same test in add_user_feedback_message()
Awaited(i, unit) ==
    conversations[i].waiting \/ (unit = "album" /\ conversations[i].album)

\* Mutated form of Taken: the conversation goes on waiting.
TakenWaiting(i, unit) ==
    [conversations[i] EXCEPT !.status = "open", !.album = (unit = "album")]

\* The conversation once add_user_feedback_message() has stored the message.
Taken(i, unit) ==
    [conversations[i] EXCEPT !.waiting = FALSE, !.status = "open",
                             !.album = (unit = "album")]

\* A new row of feedback_messages.
Written(i, sender, unit, prompt) ==
    /\ givenIds.message < MaxMessages
    /\ givenIds' = [givenIds EXCEPT !.message = @ + 1]
    /\ messages' = messages \cup
         {[id |-> givenIds'.message, conversation |-> i, sender |-> sender, unit |-> unit,
           prompt |-> prompt]}

\* receive_feedback(), which FeedbackPendingFilter lets have the message.  One that
\* is too long, or that cannot be stored, changes nothing.
Receive(u, unit) ==
    /\ \E i \in Of(u) :
         /\ Awaited(i, unit)
         /\ conversations' = [conversations EXCEPT ![i] = Taken(i, unit)]
         /\ Written(i, "user", unit, opened[u])
    /\ UNCHANGED <<opening, replies, opened, delivered>>

-----------------------------------------------------------------------------
(* The operator.                                                           *)

\* reply_feedback() has read the conversation and awaits the form.
BeginReply(r, i) ==
    /\ replies[r].pc = "idle"
    /\ replies' = [replies EXCEPT
         ![r] = [pc |-> "form", conversation |-> i, user |-> conversations[i].user]]
    /\ UNCHANGED <<conversations, givenIds, messages, opening, opened, delivered>>

\* The text is empty or too long, or is on its way to Telegram.
ReadForm(r) ==
    /\ replies[r].pc = "form"
    /\ \/ replies' = [replies EXCEPT ![r] = NoReply]
       \/ replies' = [replies EXCEPT ![r].pc = "send"]
    /\ UNCHANGED <<conversations, givenIds, messages, opening, opened, delivered>>

\* Telegram delivers the answer to the user the handler had read.
Deliver(r) ==
    /\ replies[r].pc = "send"
    /\ delivered[replies[r].conversation] < MaxReplies
    /\ delivered' = [delivered EXCEPT ![replies[r].conversation] = @ + 1]
    /\ replies' = [replies EXCEPT ![r].pc = "sent"]
    /\ UNCHANGED <<conversations, givenIds, messages, opening, opened>>

\* The call raises, whether the answer arrived or not: nothing is stored.
SendFails(r) ==
    /\ replies[r].pc \in {"send", "sent"}
    /\ replies' = [replies EXCEPT ![r] = NoReply]
    /\ UNCHANGED <<conversations, givenIds, messages, opening, opened, delivered>>

\* Mutated form of Recordable: a text that is on its way will do.
RecordableEarly(r) == replies[r].pc \in {"send", "sent"}

\* The call of Telegram has returned.
Recordable(r) == replies[r].pc = "sent"

\* add_admin_feedback_message()
Record(r) ==
    LET i == replies[r].conversation IN
    /\ Recordable(r) /\ i \in DOMAIN conversations
    /\ Written(i, "admin", "text", 0)
    /\ conversations' = [conversations EXCEPT ![i].status = "answered"]
    /\ replies' = [replies EXCEPT ![r] = NoReply]
    /\ UNCHANGED <<opening, opened, delivered>>

\* The conversation is gone: the foreign key refuses the row.
RecordRefused(r) ==
    /\ Recordable(r) /\ replies[r].conversation \notin DOMAIN conversations
    /\ replies' = [replies EXCEPT ![r] = NoReply]
    /\ UNCHANGED <<conversations, givenIds, messages, opening, opened, delivered>>

\* Mutated form of Cascade: the messages stay behind.
CascadeNothing(u) == messages

\* The messages go with the conversation (ON DELETE CASCADE).
Cascade(u) == {m \in messages : m.conversation \notin Of(u)}

\* delete_user_data()
DeleteUser(u) ==
    /\ Of(u) # {}
    /\ conversations' = Restrict(conversations, DOMAIN conversations \ Of(u))
    /\ messages' = Cascade(u)
    /\ UNCHANGED <<givenIds, opening, replies, opened, delivered>>

\* The process stops; the tables stay.
Restart ==
    /\ (\E u \in Users : opening[u] > 0) \/ (\E r \in Replies : replies[r].pc # "idle")
    /\ opening' = [u \in Users |-> 0]
    /\ replies' = [r \in Replies |-> NoReply]
    /\ UNCHANGED <<conversations, givenIds, messages, opened, delivered>>

-----------------------------------------------------------------------------
Next ==
    \/ \E u \in Users :
         \/ StartInChat(u) \/ StartInApp(u) \/ AppStarted(u) \/ AppFailed(u)
         \/ CancelInChat(u) \/ DeleteUser(u)
         \/ \E unit \in Units : Receive(u, unit)
    \/ \E r \in Replies :
         \/ \E i \in DOMAIN conversations : BeginReply(r, i)
         \/ ReadForm(r) \/ Deliver(r) \/ SendFails(r) \/ Record(r) \/ RecordRefused(r)
    \/ Restart

Spec == Init /\ [][Next]_vars

-----------------------------------------------------------------------------
(* Properties.                                                             *)

\* The variables hold what the tables and the handlers can hold: one conversation per
\* user, and messages of conversations that exist.
TypeOK ==
    /\ DOMAIN conversations \subseteq 1..givenIds.conversation
    /\ \A i \in DOMAIN conversations : conversations[i] \in Conversation
    /\ \A u \in Users : Cardinality(Of(u)) <= 1
    /\ givenIds \in [conversation : 0..MaxConversations, message : 0..MaxMessages,
                    prompt : 0..MaxStarts]
    /\ messages \subseteq Message
    /\ \A m \in messages : m.conversation \in DOMAIN conversations
    /\ opening \in [Users -> Nat]
    /\ replies \in [Replies -> Reply \cup {NoReply}]
    /\ opened \in [Users -> 0..MaxStarts] /\ delivered \in [Ids -> 0..MaxReplies]

\* Each time a user opens feedback one message or one album goes to the operator: two
\* stored messages of one opening are items of one album.  What the user writes later
\* stays with the bot (FeedbackPendingFilter).  That every item of an album arrives is not
\* said: one that comes after the user has opened feedback again and written is refused.
OneMessagePerPrompt ==
    \A m, n \in messages :
        m.sender = "user" /\ n.sender = "user" /\ m.conversation = n.conversation
            /\ m.prompt = n.prompt /\ m # n
        => m.unit = "album" /\ n.unit = "album"

\* The transcript shows no answer that the user of the conversation did not get, though
\* Telegram is called between two accesses to the table and the user may be deleted then
\* (reply_feedback()).
AnswersDelivered ==
    \A i \in DOMAIN conversations :
        Cardinality({m \in Rows(i) : m.sender = "admin"}) <= delivered[i]

=============================================================================
