---------------------------- MODULE Feedback_proof ----------------------------
(* Theorems about Feedback, for every value of its constants. *)
EXTENDS Feedback, FiniteSetTheorems, TLAPS

LEMMA Bounds ==
    /\ MaxStarts \in Nat /\ MaxMessages \in Nat /\ MaxReplies \in Nat
    /\ MaxConversations \in Nat /\ IsFiniteSet(Replies) /\ None \notin Users
  BY FeedbackAssumption DEF FeedbackAssumption

-----------------------------------------------------------------------------
(* Types.  That a user has one conversation is read element by element.     *)

LEMMA AtMostOne ==
    ASSUME NEW S, IsFiniteSet(S)
    PROVE  Cardinality(S) <= 1 <=> \A x, y \in S : x = y
  <1>1. ASSUME Cardinality(S) <= 1, NEW x \in S, NEW y \in S, x # y PROVE FALSE
    <2>1. {x, y} \subseteq S /\ {x, y} = {x} \cup {y} /\ y \notin {x}
      BY <1>1
    <2>2. IsFiniteSet({x}) /\ Cardinality({x}) = 1
      BY FS_Singleton
    <2>3. Cardinality({x, y}) = 2
      BY <2>1, <2>2, FS_AddElement
    <2>4. Cardinality({x, y}) <= Cardinality(S) /\ Cardinality(S) \in Nat
      BY <2>1, FS_Subset, FS_CardinalityType
    <2> QED
      BY <1>1, <2>3, <2>4
  <1>2. ASSUME \A x, y \in S : x = y PROVE Cardinality(S) <= 1
    <2>1. CASE S = {}
      BY <2>1, FS_EmptySet
    <2>2. CASE S # {}
      <3>1. PICK x \in S : S = {x}
        BY <1>2, <2>2
      <3> QED
        BY <3>1, FS_Singleton
    <2> QED
      BY <2>1, <2>2
  <1> QED
    BY <1>1, <1>2

\* A user has one conversation.
Own == \A i, j \in DOMAIN conversations :
           conversations[i].user = conversations[j].user => i = j

\* TypeOK without the cardinality.
Types ==
    /\ DOMAIN conversations \subseteq 1..givenIds.conversation
    /\ \A i \in DOMAIN conversations : conversations[i] \in Conversation
    /\ givenIds \in [conversation : 0..MaxConversations, message : 0..MaxMessages,
                    prompt : 0..MaxStarts]
    /\ messages \subseteq Message
    /\ \A m \in messages : m.conversation \in DOMAIN conversations
    /\ opening \in [Users -> Nat]
    /\ replies \in [Replies -> Reply \cup {NoReply}]
    /\ opened \in [Users -> 0..MaxStarts] /\ delivered \in [Ids -> 0..MaxReplies]

LEMMA TypesEquiv ==
    TypeOK <=> Types /\ Own
  <1>1. ASSUME Types PROVE (\A u \in Users : Cardinality(Of(u)) <= 1) <=> Own
    <2>1. \A u : IsFiniteSet(Of(u))
      <3>1. givenIds.conversation \in Nat
        BY <1>1, Bounds DEF Types
      <3>2. IsFiniteSet(1..givenIds.conversation)
        BY <3>1, FS_Interval
      <3>3. \A u : Of(u) \subseteq 1..givenIds.conversation
        BY <1>1 DEF Types, Of
      <3> QED
        BY <3>2, <3>3, FS_Subset
    <2>2. \A u : Cardinality(Of(u)) <= 1 <=> \A i, j \in Of(u) : i = j
      BY <2>1, AtMostOne
    <2>3. \A i \in DOMAIN conversations : conversations[i].user \in Users
      BY <1>1 DEF Types, Conversation
    <2>4. Own <=> \A u \in Users : \A i, j \in Of(u) : i = j
      BY <2>3 DEF Own, Of
    <2> QED
      BY <2>2, <2>4
  <1> QED
    BY <1>1 DEF TypeOK, Types

LEMMA TypesPrime ==
    TypeOK' <=> Types' /\ Own'
  BY TypesEquiv, PTL

LEMMA DomainIds ==
    ASSUME Types
    PROVE  DOMAIN conversations \subseteq Ids
  BY Bounds DEF Types, Ids

LEMMA FreshType ==
    ASSUME NEW u \in Users
    PROVE  Fresh(u) \in Conversation /\ Fresh(u).user = u
  BY DEF Fresh, Conversation

LEMMA StartType ==
    ASSUME Types, Own, NEW u \in Users, Start(u), opening' \in [Users -> Nat]
    PROVE  Types' /\ Own'
  <1>1. /\ givenIds.prompt \in 0..MaxStarts /\ givenIds.prompt < MaxStarts
        /\ givenIds.conversation \in 0..MaxConversations
        /\ givenIds.message \in 0..MaxMessages
    BY DEF Types, Start
  <1>2. opened' \in [Users -> 0..MaxStarts]
    <2>1. givenIds.prompt + 1 \in 0..MaxStarts
      BY <1>1, Bounds
    <2> QED
      BY <2>1 DEF Start, Types
  <1>3. UNCHANGED <<messages, replies, delivered>>
    BY DEF Start
  <1>4. CASE /\ Of(u) # {}
             /\ conversations' = [i \in DOMAIN conversations |->
                                   IF i \in Of(u) THEN Fresh(u) ELSE conversations[i]]
             /\ givenIds' = [givenIds EXCEPT !.prompt = @ + 1]
    <2>1. /\ givenIds' \in [conversation : 0..MaxConversations, message : 0..MaxMessages,
                            prompt : 0..MaxStarts]
          /\ givenIds'.conversation = givenIds.conversation
      <3>1. givenIds.prompt + 1 \in 0..MaxStarts
        BY <1>1, Bounds
      <3> QED
        BY <1>4, <3>1 DEF Types
    <2>2. DOMAIN conversations' = DOMAIN conversations
      BY <1>4
    <2>3. \A i \in DOMAIN conversations :
            conversations'[i] \in Conversation /\ conversations'[i].user = conversations[i].user
      BY <1>4, FreshType DEF Types, Of
    <2>4. Types'
      BY <1>2, <1>3, <2>1, <2>2, <2>3 DEF Types
    <2>5. Own'
      BY <2>2, <2>3 DEF Own
    <2> QED
      BY <2>4, <2>5
  <1>5. CASE /\ Of(u) = {} /\ givenIds.conversation < MaxConversations
             /\ givenIds' = [givenIds EXCEPT !.prompt = @ + 1, !.conversation = @ + 1]
             /\ conversations' = [i \in DOMAIN conversations \cup {givenIds.conversation + 1} |->
                                   IF i \in DOMAIN conversations
                                   THEN conversations[i] ELSE Fresh(u)]
    <2> DEFINE new == givenIds.conversation + 1
    <2>1. /\ givenIds' \in [conversation : 0..MaxConversations, message : 0..MaxMessages,
                            prompt : 0..MaxStarts]
          /\ givenIds'.conversation = new
      <3>1. givenIds.prompt + 1 \in 0..MaxStarts /\ new \in 0..MaxConversations
        BY <1>1, <1>5, Bounds
      <3> HIDE DEF new
      <3>2. givenIds' = [givenIds EXCEPT !.prompt = @ + 1, !.conversation = new]
        BY <1>5 DEF new
      <3> QED
        BY <3>1, <3>2 DEF Types
    <2>2. /\ DOMAIN conversations' = DOMAIN conversations \cup {new}
          /\ new \notin DOMAIN conversations /\ conversations'[new] = Fresh(u)
          /\ \A i \in DOMAIN conversations : conversations'[i] = conversations[i]
      BY <1>1, <1>5 DEF Types
    <2>3. DOMAIN conversations' \subseteq 1..new
      BY <1>1, <2>2 DEF Types
    <2> HIDE DEF new
    <2>4. Types'
      BY <1>2, <1>3, <2>1, <2>2, <2>3, FreshType DEF Types
    <2>5. \A i \in DOMAIN conversations : conversations[i].user # u
      BY <1>5 DEF Of
    <2>6. Own'
      BY <2>2, <2>5, FreshType DEF Own
    <2> QED
      BY <2>4, <2>6
  <1> QED
    BY <1>4, <1>5 DEF Start

LEMMA CancelledIs ==
    ASSUME Types, NEW u
    PROVE  /\ DOMAIN Cancelled(u) = DOMAIN conversations
           /\ \A i \in DOMAIN conversations :
                /\ Cancelled(u)[i] \in Conversation
                /\ Cancelled(u)[i].user = conversations[i].user
                /\ Cancelled(u)[i].waiting => conversations[i].waiting
                /\ Cancelled(u)[i].album => conversations[i].album
  <1>1. ASSUME NEW c \in Conversation,
               NEW d, d = c \/ d = [c EXCEPT !.waiting = FALSE, !.album = FALSE]
        PROVE  /\ d \in Conversation /\ d.user = c.user
               /\ d.waiting => c.waiting
               /\ d.album => c.album
    BY <1>1 DEF Conversation
  <1>2. DOMAIN Cancelled(u) = DOMAIN conversations
    BY DEF Cancelled
  <1>3. ASSUME NEW i \in DOMAIN conversations
        PROVE  \/ Cancelled(u)[i] = conversations[i]
               \/ Cancelled(u)[i]
                    = [conversations[i] EXCEPT !.waiting = FALSE, !.album = FALSE]
    BY DEF Cancelled
  <1>4. \A i \in DOMAIN conversations : conversations[i] \in Conversation
    BY DEF Types
  <1> QED
    BY <1>1, <1>2, <1>3, <1>4

LEMMA CancelType ==
    ASSUME Types, Own, NEW u, conversations' = Cancelled(u), opening' \in [Users -> Nat],
           UNCHANGED <<givenIds, messages, replies, opened, delivered>>
    PROVE  Types' /\ Own'
  <1>1. Types'
    BY CancelledIs DEF Types
  <1>2. Own'
    BY CancelledIs DEF Own
  <1> QED
    BY <1>1, <1>2

\* A message is written into conversation i, whose row becomes c.
LEMMA WriteType ==
    ASSUME Types, Own, NEW i \in DOMAIN conversations, NEW c \in Conversation,
           c.user = conversations[i].user,
           NEW sender \in {"user", "admin"}, NEW unit \in Units,
           NEW prompt \in 0..MaxStarts,
           Written(i, sender, unit, prompt),
           conversations' = [conversations EXCEPT ![i] = c],
           replies' \in [Replies -> Reply \cup {NoReply}],
           UNCHANGED <<opening, opened, delivered>>
    PROVE  Types' /\ Own'
  <1> DEFINE row == [id |-> givenIds'.message, conversation |-> i, sender |-> sender,
                     unit |-> unit, prompt |-> prompt]
  <1>1. /\ givenIds.message \in 0..MaxMessages /\ givenIds.message < MaxMessages
        /\ givenIds' = [givenIds EXCEPT !.message = @ + 1]
        /\ messages' = messages \cup {row}
    BY DEF Written, Types
  <1>2. givenIds.message + 1 \in 1..MaxMessages
    BY <1>1, Bounds
  <1>3. /\ givenIds' \in [conversation : 0..MaxConversations, message : 0..MaxMessages,
                          prompt : 0..MaxStarts]
        /\ givenIds'.conversation = givenIds.conversation
        /\ givenIds'.message \in 1..MaxMessages
    BY <1>1, <1>2 DEF Types
  <1>4. row \in Message /\ row.conversation = i
    BY <1>3, DomainIds DEF Message
  <1>5. DOMAIN conversations' = DOMAIN conversations
    OBVIOUS
  <1>6. \A j \in DOMAIN conversations :
          conversations'[j] \in Conversation /\ conversations'[j].user = conversations[j].user
    BY DEF Types
  <1> HIDE DEF row
  <1>7. Types'
    BY <1>1, <1>3, <1>4, <1>5, <1>6 DEF Types
  <1>8. Own'
    BY <1>5, <1>6 DEF Own
  <1> QED
    BY <1>7, <1>8


LEMMA ReceiveType ==
    ASSUME Types, Own, NEW u \in Users, NEW unit \in Units, Receive(u, unit)
    PROVE  Types' /\ Own'
  <1>1. PICK i \in Of(u) :
          /\ Awaited(i, unit)
          /\ conversations' = [conversations EXCEPT ![i] = Taken(i, unit)]
          /\ Written(i, "user", unit, opened[u])
    BY DEF Receive
  <1>2. i \in DOMAIN conversations /\ conversations[i] \in Conversation
    BY DEF Of, Types
  <1>3. Taken(i, unit) \in Conversation /\ Taken(i, unit).user = conversations[i].user
    BY <1>2 DEF Taken, Conversation
  <1>4. opened[u] \in 0..MaxStarts
    BY DEF Types
  <1>5. /\ replies' \in [Replies -> Reply \cup {NoReply}]
        /\ UNCHANGED <<opening, opened, delivered>>
    BY DEF Receive, Types
  <1> HIDE DEF Taken
  <1> QED
    BY <1>1, <1>2, <1>3, <1>4, <1>5, WriteType

LEMMA RecordType ==
    ASSUME Types, Own, NEW r \in Replies, Record(r)
    PROVE  Types' /\ Own'
  <1> DEFINE i == replies[r].conversation
             c == [conversations[i] EXCEPT !.status = "answered"]
  <1>1. i \in DOMAIN conversations /\ Written(i, "admin", "text", 0)
    BY DEF Record
  <1>2. conversations[i] \in Conversation
    BY <1>1 DEF Types
  <1>3. c \in Conversation /\ c.user = conversations[i].user
    BY <1>2 DEF Conversation
  <1>4. conversations' = [conversations EXCEPT ![i] = c]
    BY DEF Record
  <1>5. /\ replies' \in [Replies -> Reply \cup {NoReply}]
        /\ UNCHANGED <<opening, opened, delivered>>
    BY DEF Record, Types
  <1>6. 0 \in 0..MaxStarts
    BY Bounds
  <1>7. "admin" \in {"user", "admin"} /\ "text" \in Units
    BY DEF Units
  <1> HIDE DEF i, c
  <1> QED
    BY <1>1, <1>3, <1>4, <1>5, <1>6, <1>7, WriteType

\* Only the requests of the console move.
LEMMA RepliesType ==
    ASSUME Types, Own, replies' \in [Replies -> Reply \cup {NoReply}],
           UNCHANGED <<conversations, givenIds, messages, opening, opened>>,
           delivered' \in [Ids -> 0..MaxReplies]
    PROVE  Types' /\ Own'
  BY DEF Types, Own

LEMMA NoReplyIdle ==
    NoReply \notin Reply /\ NoReply.pc = "idle"
  BY DEF NoReply, Reply

LEMMA BusyReply ==
    ASSUME Types, NEW r \in Replies, replies[r].pc # "idle"
    PROVE  replies[r] \in Reply
  BY NoReplyIdle DEF Types

LEMMA BeginReplyType ==
    ASSUME Types, Own, NEW r \in Replies, NEW i \in DOMAIN conversations, BeginReply(r, i)
    PROVE  Types' /\ Own'
  <1> DEFINE p == [pc |-> "form", conversation |-> i, user |-> conversations[i].user]
  <1>1. conversations[i] \in Conversation /\ i \in Ids
    BY DomainIds DEF Types
  <1>2. p \in Reply
    BY <1>1 DEF Reply, Conversation
  <1>3. replies' = [replies EXCEPT ![r] = p]
        /\ UNCHANGED <<conversations, givenIds, messages, opening, opened, delivered>>
    BY DEF BeginReply
  <1> HIDE DEF p
  <1>4. replies' \in [Replies -> Reply \cup {NoReply}] /\ delivered' \in [Ids -> 0..MaxReplies]
    BY <1>2, <1>3 DEF Types
  <1> QED
    BY <1>3, <1>4, RepliesType

LEMMA ReplyMoved ==
    ASSUME Types, NEW r \in Replies, replies[r].pc # "idle",
           NEW pc \in {"form", "send", "sent"},
           replies' = [replies EXCEPT ![r].pc = pc]
    PROVE  /\ replies' \in [Replies -> Reply \cup {NoReply}]
           /\ replies'[r].pc = pc /\ replies'[r].conversation = replies[r].conversation
           /\ \A q \in Replies \ {r} : replies'[q] = replies[q]
  <1> DEFINE p == [replies[r] EXCEPT !.pc = pc]
  <1>1. p \in Reply /\ p.pc = pc /\ p.conversation = replies[r].conversation
    BY BusyReply DEF Reply
  <1>2. replies' = [replies EXCEPT ![r] = p]
    OBVIOUS
  <1> HIDE DEF p
  <1> QED
    BY <1>1, <1>2 DEF Types

LEMMA ReplyEnded ==
    ASSUME Types, NEW r \in Replies, replies' = [replies EXCEPT ![r] = NoReply]
    PROVE  /\ replies' \in [Replies -> Reply \cup {NoReply}]
           /\ replies'[r].pc = "idle"
           /\ \A q \in Replies \ {r} : replies'[q] = replies[q]
  BY NoReplyIdle DEF Types

LEMMA ReadFormType ==
    ASSUME Types, Own, NEW r \in Replies, ReadForm(r)
    PROVE  Types' /\ Own'
  <1>1. replies' \in [Replies -> Reply \cup {NoReply}]
    BY ReplyMoved, ReplyEnded DEF ReadForm
  <1>2. UNCHANGED <<conversations, givenIds, messages, opening, opened, delivered>>
    BY DEF ReadForm
  <1>3. delivered' \in [Ids -> 0..MaxReplies]
    BY <1>2 DEF Types
  <1> QED
    BY <1>1, <1>2, <1>3, RepliesType

LEMMA DeliverType ==
    ASSUME Types, Own, NEW r \in Replies, Deliver(r)
    PROVE  Types' /\ Own'
  <1> DEFINE i == replies[r].conversation
  <1>1. i \in Ids
    BY BusyReply DEF Deliver, Reply
  <1>2. delivered[i] \in 0..MaxReplies /\ delivered[i] < MaxReplies
    BY <1>1 DEF Types, Deliver
  <1>3. delivered[i] + 1 \in 0..MaxReplies
    BY <1>2, Bounds
  <1>4. delivered' = [delivered EXCEPT ![i] = delivered[i] + 1]
        /\ UNCHANGED <<conversations, givenIds, messages, opening, opened>>
    BY DEF Deliver
  <1>5. replies' \in [Replies -> Reply \cup {NoReply}]
    BY ReplyMoved DEF Deliver
  <1> HIDE DEF i
  <1>6. delivered' \in [Ids -> 0..MaxReplies]
    BY <1>1, <1>3, <1>4 DEF Types
  <1> QED
    BY <1>4, <1>5, <1>6, RepliesType

LEMMA EndedType ==
    ASSUME Types, Own, NEW r \in Replies, replies' = [replies EXCEPT ![r] = NoReply],
           UNCHANGED <<conversations, givenIds, messages, opening, opened, delivered>>
    PROVE  Types' /\ Own'
  <1>1. delivered' \in [Ids -> 0..MaxReplies]
    BY DEF Types
  <1> QED
    BY <1>1, ReplyEnded, RepliesType

LEMMA DeletedIs ==
    ASSUME NEW u, DeleteUser(u)
    PROVE  /\ DOMAIN conversations' = DOMAIN conversations \ Of(u)
           /\ \A i \in DOMAIN conversations \ Of(u) : conversations'[i] = conversations[i]
           /\ messages' = {m \in messages : m.conversation \notin Of(u)}
           /\ UNCHANGED <<givenIds, opening, replies, opened, delivered>>
  BY DEF DeleteUser, Restrict, Cascade

LEMMA DeleteType ==
    ASSUME Types, Own, NEW u \in Users, DeleteUser(u)
    PROVE  Types' /\ Own'
  <1>1. Types'
    BY DeletedIs DEF Types
  <1>2. Own'
    BY DeletedIs DEF Own
  <1> QED
    BY <1>1, <1>2

LEMMA RestartType ==
    ASSUME Types, Own, Restart
    PROVE  Types' /\ Own'
  <1>1. /\ opening' \in [Users -> Nat] /\ replies' \in [Replies -> Reply \cup {NoReply}]
        /\ UNCHANGED <<conversations, givenIds, messages, opened, delivered>>
    BY DEF Restart
  <1> QED
    BY <1>1 DEF Types, Own

LEMMA OpenedType ==
    ASSUME Types, NEW u \in Users, Opened(u)
    PROVE  opening' \in [Users -> Nat]
  <1>1. opening \in [Users -> Nat] /\ opening[u] > 0
    BY DEF Types, Opened
  <1>2. opening[u] - 1 \in Nat
    BY <1>1
  <1> QED
    BY <1>1, <1>2 DEF Opened

LEMMA NextType ==
    ASSUME Types, Own, [Next]_vars
    PROVE  Types' /\ Own'
  <1>1. CASE UNCHANGED vars
    BY <1>1 DEF vars, Types, Own
  <1>2. ASSUME NEW u \in Users, StartInChat(u) PROVE Types' /\ Own'
    <2>1. Start(u) /\ opening' \in [Users -> Nat]
      BY <1>2 DEF StartInChat, Types
    <2> QED
      BY <2>1, StartType
  <1>3. ASSUME NEW u \in Users, StartInApp(u) PROVE Types' /\ Own'
    <2>1. Start(u) /\ opening' \in [Users -> Nat]
      BY <1>3 DEF StartInApp, Types
    <2> QED
      BY <2>1, StartType
  <1>4. ASSUME NEW u \in Users, AppStarted(u) PROVE Types' /\ Own'
    <2>1. /\ opening' \in [Users -> Nat]
          /\ UNCHANGED <<conversations, givenIds, messages, replies, opened, delivered>>
      BY <1>4, OpenedType DEF AppStarted
    <2> QED
      BY <2>1 DEF Types, Own
  <1>5. ASSUME NEW u \in Users, AppFailed(u) \/ CancelInChat(u) PROVE Types' /\ Own'
    <2>1. /\ conversations' = Cancelled(u) /\ opening' \in [Users -> Nat]
          /\ UNCHANGED <<givenIds, messages, replies, opened, delivered>>
      BY <1>5, OpenedType DEF AppFailed, CancelInChat, Types
    <2> QED
      BY <2>1, CancelType
  <1>6. ASSUME NEW r \in Replies, SendFails(r) \/ RecordRefused(r) PROVE Types' /\ Own'
    <2>1. /\ replies' = [replies EXCEPT ![r] = NoReply]
          /\ UNCHANGED <<conversations, givenIds, messages, opening, opened, delivered>>
      BY <1>6 DEF SendFails, RecordRefused
    <2> QED
      BY <2>1, EndedType
  <1> QED
    BY <1>1, <1>2, <1>3, <1>4, <1>5, <1>6, ReceiveType, RecordType,
       BeginReplyType, ReadFormType, DeliverType, DeleteType, RestartType DEF Next

LEMMA InitType ==
    Init => Types /\ Own
  <1> SUFFICES ASSUME Init PROVE Types /\ Own
    OBVIOUS
  <1>1. DOMAIN conversations = {} /\ messages = {} /\ opening \in [Users -> Nat]
    BY DEF Init
  <1>2. 0 \in 0..MaxStarts /\ 0 \in 0..MaxMessages /\ 0 \in 0..MaxReplies
        /\ 0 \in 0..MaxConversations
    BY Bounds
  <1>3. givenIds \in [conversation : 0..MaxConversations, message : 0..MaxMessages,
                      prompt : 0..MaxStarts]
    BY <1>2 DEF Init
  <1>4. opened \in [Users -> 0..MaxStarts] /\ delivered \in [Ids -> 0..MaxReplies]
    BY <1>2 DEF Init
  <1>5. replies \in [Replies -> Reply \cup {NoReply}]
    BY DEF Init
  <1> QED
    BY <1>1, <1>3, <1>4, <1>5 DEF Types, Own

\* The tables and the handlers of feedback hold what they can hold in every reachable
\* state: one conversation per user, and messages of conversations that exist, though a
\* user may be deleted while a handler awaits Telegram.
THEOREM TypeCorrect ==
    Spec => []TypeOK
  <1>1. Init => TypeOK
    BY InitType, TypesEquiv
  <1>2. TypeOK /\ [Next]_vars => TypeOK'
    BY NextType, TypesEquiv, TypesPrime
  <1> QED
    BY <1>1, <1>2, PTL DEF Spec

-----------------------------------------------------------------------------
(* One message of each opening.                                             *)

\* Openings are numbered in order; a message carries the number of the last one.
PromptsInOrder ==
    /\ \A u \in Users : opened[u] <= givenIds.prompt
    /\ \A m \in messages : m.sender = "user" =>
         m.prompt <= opened[conversations[m.conversation].user]

\* While a conversation waits, its opening has no message; while it takes the
\* rest of an album, its opening has nothing but items of an album.
WaitingClean ==
    \A m \in messages :
        LET c == conversations[m.conversation] IN
        m.sender = "user" /\ m.prompt = opened[c.user] =>
            ~c.waiting /\ (c.album => m.unit = "album")

Talk == PromptsInOrder /\ WaitingClean /\ OneMessagePerPrompt

\* No user message is new and no conversation begins to wait.
LEMMA QuietTalk ==
    ASSUME Types, Types', Talk,
           opened' = opened, givenIds'.prompt = givenIds.prompt,
           \A m \in messages' : m.sender = "user" => m \in messages,
           DOMAIN conversations' \subseteq DOMAIN conversations,
           \A i \in DOMAIN conversations' :
               /\ conversations'[i].user = conversations[i].user
               /\ conversations'[i].waiting => conversations[i].waiting
               /\ conversations'[i].album => conversations[i].album
    PROVE  Talk'
  <1>1. \A m \in messages' : m.conversation \in DOMAIN conversations'
    BY DEF Types
  <1>2. PromptsInOrder'
    BY <1>1 DEF Talk, PromptsInOrder
  <1>3. WaitingClean'
    BY <1>1 DEF Talk, WaitingClean
  <1>4. OneMessagePerPrompt'
    BY DEF Talk, OneMessagePerPrompt
  <1> QED
    BY <1>2, <1>3, <1>4 DEF Talk

LEMMA StartTalk ==
    ASSUME Types, Types', Talk, NEW u \in Users, Start(u)
    PROVE  Talk'
  <1> DEFINE new == givenIds.prompt + 1
  <1>1. givenIds.prompt \in Nat /\ opened \in [Users -> Nat]
    BY Bounds DEF Types
  <1>2. new \in Nat /\ givenIds.prompt < new
    BY <1>1
  <1>3. messages' = messages /\ opened' = [opened EXCEPT ![u] = new]
    BY DEF Start
  <1>4. givenIds' = [givenIds EXCEPT !.prompt = new]
        \/ givenIds' = [givenIds EXCEPT !.prompt = new, !.conversation = @ + 1]
    BY DEF Start
  <1>5. givenIds'.prompt = new
    BY <1>4 DEF Types
  <1>6. \A i \in DOMAIN conversations :
          /\ i \in DOMAIN conversations'
          /\ conversations[i].user = u => conversations'[i].user = u
          /\ conversations[i].user # u => conversations'[i] = conversations[i]
    BY FreshType DEF Start, Of
  <1>7. \A m \in messages :
          m \in Message /\ m.conversation \in DOMAIN conversations
            /\ conversations[m.conversation].user \in Users
    BY DEF Types, Conversation
  <1>8. \A m \in messages : m.prompt \in Nat
    BY <1>7, Bounds DEF Message
  <1> HIDE DEF new
  <1>9. \A m \in messages : m.sender = "user" => m.prompt < new
    <2> SUFFICES ASSUME NEW m \in messages, m.sender = "user" PROVE m.prompt < new
      OBVIOUS
    <2> DEFINE v == conversations[m.conversation].user
    <2>1. v \in Users /\ m.prompt \in Nat
      BY <1>7, <1>8
    <2>2. m.prompt <= opened[v] /\ opened[v] <= givenIds.prompt
      BY <2>1 DEF Talk, PromptsInOrder
    <2>3. opened[v] \in Nat
      BY <1>1, <2>1
    <2> HIDE DEF v
    <2> QED
      BY <1>1, <1>2, <2>1, <2>2, <2>3
  <1>10. PromptsInOrder'
    <2>1. \A v \in Users : opened'[v] <= givenIds'.prompt
      <3> SUFFICES ASSUME NEW v \in Users PROVE opened'[v] <= new
        BY <1>5
      <3>1. opened[v] \in Nat /\ opened[v] <= givenIds.prompt
        BY <1>1 DEF Talk, PromptsInOrder
      <3>2. opened'[v] = IF v = u THEN new ELSE opened[v]
        BY <1>1, <1>3
      <3> QED
        BY <1>1, <1>2, <3>1, <3>2
    <2>2. ASSUME NEW m \in messages, m.sender = "user"
          PROVE  m.prompt <= opened'[conversations'[m.conversation].user]
      <3>1. CASE conversations[m.conversation].user = u
        <4>1. opened'[conversations'[m.conversation].user] = new
          BY <1>1, <1>3, <1>6, <1>7, <2>2, <3>1
        <4> QED
          BY <1>2, <1>8, <1>9, <2>2, <4>1
      <3>2. CASE conversations[m.conversation].user # u
        <4>1. opened'[conversations'[m.conversation].user]
                = opened[conversations[m.conversation].user]
          BY <1>1, <1>3, <1>6, <1>7, <2>2, <3>2
        <4> QED
          BY <2>2, <4>1 DEF Talk, PromptsInOrder
      <3> QED
        BY <3>1, <3>2
    <2> QED
      BY <1>3, <2>1, <2>2 DEF PromptsInOrder
  <1>11. WaitingClean'
    <2> SUFFICES ASSUME NEW m \in messages, m.sender = "user",
                        m.prompt = opened'[conversations'[m.conversation].user]
                 PROVE  /\ ~conversations'[m.conversation].waiting
                        /\ conversations'[m.conversation].album => m.unit = "album"
      BY <1>3 DEF WaitingClean
    <2>1. conversations[m.conversation].user # u
      <3>1. m.prompt # new
        BY <1>2, <1>8, <1>9
      <3> QED
        BY <1>1, <1>3, <1>6, <1>7, <3>1
    <2>2. /\ conversations'[m.conversation] = conversations[m.conversation]
          /\ opened'[conversations[m.conversation].user]
               = opened[conversations[m.conversation].user]
      BY <1>1, <1>3, <1>6, <1>7, <2>1
    <2> QED
      BY <2>2 DEF Talk, WaitingClean
  <1>12. OneMessagePerPrompt'
    BY <1>3 DEF Talk, OneMessagePerPrompt
  <1> QED
    BY <1>10, <1>11, <1>12 DEF Talk

\* Of an opening that still takes a message of this unit, nothing is stored, or
\* the rest is of the same album.
LEMMA ReceiveTalk ==
    ASSUME Types, Types', Talk, NEW u \in Users, NEW unit \in Units, Receive(u, unit)
    PROVE  Talk'
  <1>1. PICK i \in Of(u) :
          /\ Awaited(i, unit)
          /\ conversations' = [conversations EXCEPT ![i] = Taken(i, unit)]
          /\ Written(i, "user", unit, opened[u])
    BY DEF Receive
  <1>2. i \in DOMAIN conversations /\ conversations[i] \in Conversation
        /\ conversations[i].user = u
    BY DEF Of, Types
  <1>3. PICK row : /\ messages' = messages \cup {row}
                   /\ row.conversation = i /\ row.sender = "user"
                   /\ row.unit = unit /\ row.prompt = opened[u]
    <2> DEFINE new == [id |-> givenIds'.message, conversation |-> i, sender |-> "user",
                       unit |-> unit, prompt |-> opened[u]]
    <2>1. messages' = messages \cup {new}
      BY <1>1 DEF Written
    <2>2. /\ new.conversation = i /\ new.sender = "user"
          /\ new.unit = unit /\ new.prompt = opened[u]
      OBVIOUS
    <2> HIDE DEF new
    <2> QED
      BY <2>1, <2>2
  <1>4. /\ opened' = opened /\ givenIds'.prompt = givenIds.prompt
    BY <1>1 DEF Receive, Written, Types
  <1>5. /\ DOMAIN conversations' = DOMAIN conversations
        /\ conversations'[i].user = u /\ ~conversations'[i].waiting
        /\ conversations'[i].album <=> unit = "album"
        /\ \A j \in DOMAIN conversations \ {i} : conversations'[j] = conversations[j]
    BY <1>1, <1>2 DEF Taken, Conversation
  <1>6. \A m \in messages : m.conversation \in DOMAIN conversations
    BY DEF Types
  \* What the opening has already is of the album that goes on.
  <1>7. ASSUME NEW m \in messages, m.sender = "user", m.conversation = i,
               m.prompt = opened[u]
        PROVE  m.unit = "album" /\ unit = "album"
    <2>1. ~conversations[i].waiting /\ (conversations[i].album => m.unit = "album")
      BY <1>2, <1>7 DEF Talk, WaitingClean
    <2> QED
      BY <1>1, <2>1 DEF Awaited
  <1>8. PromptsInOrder'
    <2>1. opened[u] <= opened[u]
      BY Bounds DEF Types
    <2> QED
      BY <1>2, <1>3, <1>4, <1>5, <1>6, <2>1 DEF Talk, PromptsInOrder
  <1>9. WaitingClean'
    <2> SUFFICES ASSUME NEW m \in messages', m.sender = "user",
                        m.prompt = opened[conversations'[m.conversation].user]
                 PROVE  /\ ~conversations'[m.conversation].waiting
                        /\ conversations'[m.conversation].album => m.unit = "album"
      BY <1>4 DEF WaitingClean
    <2>1. CASE m = row
      BY <1>3, <1>5, <2>1
    <2>2. CASE m \in messages /\ m.conversation = i
      BY <1>5, <1>7, <2>2
    <2>3. CASE m \in messages /\ m.conversation # i
      <3>1. conversations'[m.conversation] = conversations[m.conversation]
        BY <1>5, <1>6, <2>3
      <3> QED
        BY <2>3, <3>1 DEF Talk, WaitingClean
    <2> QED
      BY <1>3, <2>1, <2>2, <2>3
  <1>10. OneMessagePerPrompt'
    BY <1>3, <1>7 DEF Talk, OneMessagePerPrompt
  <1> QED
    BY <1>8, <1>9, <1>10 DEF Talk

LEMMA WrittenAdmin ==
    ASSUME Types, NEW i, Written(i, "admin", "text", 0)
    PROVE  \E row : /\ messages' = messages \cup {row}
                    /\ row.conversation = i /\ row.sender = "admin"
  <1> DEFINE new == [id |-> givenIds'.message, conversation |-> i, sender |-> "admin",
                     unit |-> "text", prompt |-> 0]
  <1>1. messages' = messages \cup {new}
    BY DEF Written
  <1>2. new.conversation = i /\ new.sender = "admin"
    OBVIOUS
  <1> HIDE DEF new
  <1> QED
    BY <1>1, <1>2

LEMMA RecordTalk ==
    ASSUME Types, Types', Talk, NEW r \in Replies, Record(r)
    PROVE  Talk'
  <1> DEFINE i == replies[r].conversation
  <1>1. i \in DOMAIN conversations /\ Written(i, "admin", "text", 0) /\ opened' = opened
        /\ conversations' = [conversations EXCEPT ![i].status = "answered"]
    BY DEF Record
  <1>2. conversations[i] \in Conversation
    BY <1>1 DEF Types
  <1>3. PICK row : messages' = messages \cup {row} /\ row.sender = "admin"
    BY <1>1, WrittenAdmin
  <1>4. givenIds'.prompt = givenIds.prompt
    BY <1>1 DEF Written, Types
  <1>5. /\ DOMAIN conversations' = DOMAIN conversations
        /\ \A j \in DOMAIN conversations :
             /\ conversations'[j].user = conversations[j].user
             /\ conversations'[j].waiting = conversations[j].waiting
             /\ conversations'[j].album = conversations[j].album
    BY <1>1, <1>2 DEF Conversation
  <1>6. \A m \in messages' : m.sender = "user" => m \in messages
    BY <1>3
  <1> HIDE DEF i
  <1> QED
    BY <1>1, <1>4, <1>5, <1>6, QuietTalk

LEMMA NextTalk ==
    ASSUME Types, Own, Talk, [Next]_vars
    PROVE  Talk'
  <1> USE NextType
  <1>1. Types'
    OBVIOUS
  <1>2. ASSUME UNCHANGED <<conversations, givenIds, messages, opened>> PROVE Talk'
    BY <1>1, <1>2, QuietTalk
  <1>3. CASE UNCHANGED vars
    BY <1>2, <1>3 DEF vars
  <1>4. ASSUME NEW u \in Users, StartInChat(u) \/ StartInApp(u) PROVE Talk'
    BY <1>1, <1>4, StartTalk DEF StartInChat, StartInApp
  <1>5. ASSUME NEW u \in Users, AppStarted(u) PROVE Talk'
    BY <1>2, <1>5 DEF AppStarted
  <1>6. ASSUME NEW u \in Users, AppFailed(u) \/ CancelInChat(u) PROVE Talk'
    <2>1. conversations' = Cancelled(u)
          /\ UNCHANGED <<givenIds, messages, opened>>
      BY <1>6 DEF AppFailed, CancelInChat
    <2> QED
      BY <1>1, <2>1, CancelledIs, QuietTalk
  <1>7. ASSUME NEW u \in Users, DeleteUser(u) PROVE Talk'
    BY <1>1, <1>7, DeletedIs, QuietTalk
  <1>8. ASSUME NEW r \in Replies,
               \/ \E i \in DOMAIN conversations : BeginReply(r, i)
               \/ ReadForm(r) \/ Deliver(r) \/ SendFails(r) \/ RecordRefused(r)
        PROVE  Talk'
    BY <1>2, <1>8 DEF BeginReply, ReadForm, Deliver, SendFails, RecordRefused
  <1>9. CASE Restart
    BY <1>2, <1>9 DEF Restart
  <1> QED
    BY <1>1, <1>3, <1>4, <1>5, <1>6, <1>7, <1>8, <1>9, ReceiveTalk, RecordTalk
       DEF Next

\* Each opening of feedback sends one message, or one album, to the operator
\* (FeedbackPendingFilter, add_user_feedback_message()), in every order in which the
\* user, the Mini App and the failures of Telegram begin and cancel a wait.
THEOREM OnePerOpening ==
    Spec => []OneMessagePerPrompt
  <1>1. Init => Types /\ Own /\ Talk
    <2>1. Init => Types /\ Own
      BY InitType
    <2>2. Init => Talk
      <3>1. 0 <= 0
        OBVIOUS
      <3> QED
        BY <3>1 DEF Init, Talk, PromptsInOrder, WaitingClean, OneMessagePerPrompt
    <2> QED
      BY <2>1, <2>2
  <1>2. Types /\ Own /\ Talk /\ [Next]_vars => Types' /\ Own' /\ Talk'
    BY NextType, NextTalk
  <1>3. Talk => OneMessagePerPrompt
    BY DEF Talk
  <1> QED
    BY <1>1, <1>2, <1>3, PTL DEF Spec

-----------------------------------------------------------------------------
(* No answer in the transcript that was not delivered.                      *)

Admin(i) == {m \in Rows(i) : m.sender = "admin"}

Sent(i) == {r \in Replies : replies[r].pc = "sent" /\ replies[r].conversation = i}

\* Every stored answer, and every one about to be stored, was delivered.
AnswersCounted ==
    \A i \in Ids :
        /\ IsFiniteSet(Admin(i))
        /\ Cardinality(Admin(i)) + Cardinality(Sent(i)) <= delivered[i]

LEMMA SentFinite ==
    ASSUME NEW i
    PROVE  IsFiniteSet(Sent(i)) /\ Cardinality(Sent(i)) \in Nat
  <1>1. Sent(i) \subseteq Replies
    BY DEF Sent
  <1> QED
    BY <1>1, Bounds, FS_Subset, FS_CardinalityType

\* Nothing is stored and no request is about to store more than before.
LEMMA QuietAnswers ==
    ASSUME Types, AnswersCounted, delivered' = delivered,
           \A m \in messages' : m.sender = "admin" => m \in messages,
           \A r \in Replies : replies'[r].pc = "sent" => replies'[r] = replies[r]
    PROVE  AnswersCounted'
  <1> SUFFICES ASSUME NEW i \in Ids
               PROVE  /\ IsFiniteSet(Admin(i)')
                      /\ Cardinality(Admin(i)') + Cardinality(Sent(i)') <= delivered'[i]
    BY DEF AnswersCounted
  <1>1. Admin(i)' \subseteq Admin(i) /\ Sent(i)' \subseteq Sent(i)
    BY DEF Admin, Rows, Sent
  <1>2. IsFiniteSet(Admin(i)) /\ IsFiniteSet(Sent(i))
    BY SentFinite DEF AnswersCounted
  <1>3. /\ IsFiniteSet(Admin(i)') /\ Cardinality(Admin(i)') <= Cardinality(Admin(i))
        /\ IsFiniteSet(Sent(i)') /\ Cardinality(Sent(i)') <= Cardinality(Sent(i))
    BY <1>1, <1>2, FS_Subset
  <1>4. /\ Cardinality(Admin(i)) \in Nat /\ Cardinality(Sent(i)) \in Nat
        /\ Cardinality(Admin(i)') \in Nat /\ Cardinality(Sent(i)') \in Nat
    BY <1>2, <1>3, FS_CardinalityType
  <1>5. delivered[i] \in Nat
    BY Bounds DEF Types
  <1>6. Cardinality(Admin(i)) + Cardinality(Sent(i)) <= delivered[i]
    BY DEF AnswersCounted
  <1> QED
    BY <1>3, <1>4, <1>5, <1>6

LEMMA DeliverAnswers ==
    ASSUME Types, AnswersCounted, NEW r \in Replies, Deliver(r)
    PROVE  AnswersCounted'
  <1> DEFINE c == replies[r].conversation
  <1>1. replies[r].pc = "send" /\ messages' = messages
    BY DEF Deliver
  <1>2. replies[r] \in Reply
    BY <1>1, BusyReply
  <1>3. /\ replies'[r].pc = "sent" /\ replies'[r].conversation = c
        /\ \A q \in Replies \ {r} : replies'[q] = replies[q]
    BY <1>1, ReplyMoved DEF Deliver
  <1>4. c \in Ids /\ delivered' = [delivered EXCEPT ![c] = delivered[c] + 1]
    BY <1>2 DEF Deliver, Reply
  <1> HIDE DEF c
  <1> SUFFICES ASSUME NEW i \in Ids
               PROVE  /\ IsFiniteSet(Admin(i)')
                      /\ Cardinality(Admin(i)') + Cardinality(Sent(i)') <= delivered'[i]
    BY DEF AnswersCounted
  <1>5. Admin(i)' = Admin(i)
    BY <1>1 DEF Admin, Rows
  <1>6. IsFiniteSet(Admin(i)) /\ Cardinality(Admin(i)) \in Nat
        /\ Cardinality(Admin(i)) + Cardinality(Sent(i)) <= delivered[i]
    BY FS_CardinalityType DEF AnswersCounted
  <1>7. IsFiniteSet(Sent(i)) /\ Cardinality(Sent(i)) \in Nat
    BY SentFinite
  <1>8. delivered[i] \in Nat
    BY Bounds DEF Types
  <1>9. CASE i = c
    <2>1. Sent(i)' = Sent(i) \cup {r} /\ r \notin Sent(i)
      BY <1>1, <1>3, <1>9 DEF Sent
    <2>2. Cardinality(Sent(i)') = Cardinality(Sent(i)) + 1
      BY <1>7, <2>1, FS_AddElement
    <2>3. delivered'[i] = delivered[i] + 1
      BY <1>4, <1>9 DEF Types
    <2> QED
      BY <1>5, <1>6, <1>7, <1>8, <2>2, <2>3
  <1>10. CASE i # c
    <2>1. Sent(i)' = Sent(i)
      BY <1>1, <1>3, <1>10 DEF Sent
    <2>2. delivered'[i] = delivered[i]
      BY <1>4, <1>10 DEF Types
    <2> QED
      BY <1>5, <1>6, <2>1, <2>2
  <1> QED
    BY <1>9, <1>10

LEMMA RecordAnswers ==
    ASSUME Types, AnswersCounted, NEW r \in Replies, Record(r)
    PROVE  AnswersCounted'
  <1> DEFINE c == replies[r].conversation
  <1>1. replies[r].pc = "sent" /\ delivered' = delivered
        /\ Written(c, "admin", "text", 0)
        /\ replies' = [replies EXCEPT ![r] = NoReply]
    BY DEF Record, Recordable
  <1>2. replies'[r].pc = "idle" /\ \A q \in Replies \ {r} : replies'[q] = replies[q]
    BY <1>1, ReplyEnded
  <1>3. PICK row : /\ messages' = messages \cup {row}
                   /\ row.conversation = c /\ row.sender = "admin"
    BY <1>1, WrittenAdmin
  <1>4. \A i : r \in Sent(i) <=> i = c
    BY <1>1 DEF Sent
  <1> HIDE DEF c
  <1> SUFFICES ASSUME NEW i \in Ids
               PROVE  /\ IsFiniteSet(Admin(i)')
                      /\ Cardinality(Admin(i)') + Cardinality(Sent(i)') <= delivered'[i]
    BY DEF AnswersCounted
  <1>5. IsFiniteSet(Admin(i)) /\ Cardinality(Admin(i)) \in Nat
        /\ Cardinality(Admin(i)) + Cardinality(Sent(i)) <= delivered[i]
    BY FS_CardinalityType DEF AnswersCounted
  <1>6. IsFiniteSet(Sent(i)) /\ Cardinality(Sent(i)) \in Nat
    BY SentFinite
  <1>7. delivered'[i] \in Nat /\ delivered'[i] = delivered[i]
    BY <1>1, Bounds DEF Types
  <1>8. Sent(i)' = Sent(i) \ {r}
    BY <1>1, <1>2 DEF Sent
  <1>9. CASE i = c
    <2>1. Admin(i)' = Admin(i) \cup {row}
      BY <1>3, <1>9 DEF Admin, Rows
    <2>2. IsFiniteSet(Admin(i)')
          /\ Cardinality(Admin(i)') \in {Cardinality(Admin(i)), Cardinality(Admin(i)) + 1}
      BY <1>5, <2>1, FS_AddElement
    <2>3. Cardinality(Sent(i)') = Cardinality(Sent(i)) - 1
      BY <1>4, <1>6, <1>8, <1>9, FS_RemoveElement
    <2> QED
      BY <1>5, <1>6, <1>7, <2>2, <2>3
  <1>10. CASE i # c
    <2>1. Admin(i)' = Admin(i)
      BY <1>3, <1>10 DEF Admin, Rows
    <2>2. Sent(i)' = Sent(i)
      BY <1>4, <1>8, <1>10
    <2> QED
      BY <1>5, <1>7, <2>1, <2>2
  <1> QED
    BY <1>9, <1>10

LEMMA NextAnswers ==
    ASSUME Types, Own, AnswersCounted, [Next]_vars
    PROVE  AnswersCounted'
  <1>1. ASSUME delivered' = delivered, replies' = replies,
               \A m \in messages' : m.sender = "admin" => m \in messages
        PROVE  AnswersCounted'
    BY <1>1, QuietAnswers
  <1>2. CASE UNCHANGED vars
    BY <1>1, <1>2 DEF vars
  <1>3. ASSUME NEW u \in Users,
               \/ StartInChat(u) \/ StartInApp(u) \/ AppStarted(u) \/ AppFailed(u)
               \/ CancelInChat(u) \/ DeleteUser(u)
        PROVE  AnswersCounted'
    <2>1. delivered' = delivered /\ replies' = replies /\ messages' \subseteq messages
      BY <1>3 DEF StartInChat, StartInApp, Start, AppStarted, AppFailed, CancelInChat,
         DeleteUser, Cascade
    <2> QED
      BY <1>1, <2>1
  <1>4. ASSUME NEW u \in Users, NEW unit \in Units, Receive(u, unit)
        PROVE  AnswersCounted'
    <2>1. \E i : Written(i, "user", unit, opened[u])
      BY <1>4 DEF Receive
    <2>2. \A m \in messages' : m.sender = "admin" => m \in messages
      BY <2>1 DEF Written
    <2> QED
      BY <1>1, <1>4, <2>2 DEF Receive
  <1>5. ASSUME NEW r \in Replies,
               \/ \E i \in DOMAIN conversations : BeginReply(r, i)
               \/ ReadForm(r) \/ SendFails(r) \/ RecordRefused(r)
        PROVE  AnswersCounted'
    <2>1. delivered' = delivered /\ messages' = messages
      BY <1>5 DEF BeginReply, ReadForm, SendFails, RecordRefused
    <2>2. replies'[r].pc # "sent" /\ \A q \in Replies \ {r} : replies'[q] = replies[q]
      <3>1. CASE ReadForm(r)
        BY <3>1, ReplyMoved, ReplyEnded DEF ReadForm
      <3>2. CASE SendFails(r) \/ RecordRefused(r)
        BY <3>2, ReplyEnded DEF SendFails, RecordRefused
      <3>3. CASE \E i \in DOMAIN conversations : BeginReply(r, i)
        BY <3>3 DEF BeginReply, Types
      <3> QED
        BY <1>5, <3>1, <3>2, <3>3
    <2> QED
      BY <2>1, <2>2, QuietAnswers
  <1>6. CASE Restart
    <2>1. delivered' = delivered /\ messages' = messages
          /\ \A q \in Replies : replies'[q].pc = "idle"
      BY <1>6, NoReplyIdle DEF Restart
    <2> QED
      BY <2>1, QuietAnswers
  <1> QED
    BY <1>2, <1>3, <1>4, <1>5, <1>6, DeliverAnswers, RecordAnswers DEF Next

\* The transcript of the console shows no answer that Telegram did not deliver
\* (reply_feedback()): every stored answer, with every one that a request has sent and is
\* about to store, is matched by a delivery in the same conversation.
THEOREM AnswersMatched ==
    Spec => []AnswersDelivered
  <1>1. Init => AnswersCounted
    <2> SUFFICES ASSUME Init, NEW i \in Ids
                 PROVE  /\ IsFiniteSet(Admin(i))
                        /\ Cardinality(Admin(i)) + Cardinality(Sent(i)) <= delivered[i]
      BY DEF AnswersCounted
    <2>1. Admin(i) = {} /\ Sent(i) = {} /\ delivered[i] = 0
      BY NoReplyIdle DEF Init, Admin, Rows, Sent
    <2>2. IsFiniteSet({}) /\ Cardinality({}) = 0
      BY FS_EmptySet
    <2> QED
      BY <2>1, <2>2
  <1>2. Init => Types /\ Own
    BY InitType
  <1>3. Types /\ Own /\ AnswersCounted /\ [Next]_vars => Types' /\ Own' /\ AnswersCounted'
    BY NextType, NextAnswers
  <1>4. Types /\ AnswersCounted => AnswersDelivered
    <2> SUFFICES ASSUME Types, AnswersCounted, NEW i \in DOMAIN conversations
                 PROVE  Cardinality(Admin(i)) <= delivered[i]
      BY DEF AnswersDelivered, Admin
    <2>1. i \in Ids
      BY DomainIds
    <2>2. /\ Cardinality(Admin(i)) \in Nat
          /\ Cardinality(Admin(i)) + Cardinality(Sent(i)) <= delivered[i]
      BY <2>1, FS_CardinalityType DEF AnswersCounted
    <2>3. Cardinality(Sent(i)) \in Nat /\ delivered[i] \in Nat
      BY <2>1, SentFinite, Bounds DEF Types
    <2> QED
      BY <2>2, <2>3
  <1> QED
    BY <1>1, <1>2, <1>3, <1>4, PTL DEF Spec

=============================================================================
