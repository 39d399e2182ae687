------------------------------- MODULE Messages -------------------------------
(***************************************************************************)
(* Private messages (app/messaging.py, private_messages of                 *)
(* app/database.py) and the page that reads them (static/js/messages.js).  *)
(*                                                                         *)
(* The page of one user polls the open conversation for what comes after   *)
(* the last message it shows; its own messages come back in the answer to  *)
(* the request that sent them.  The two requests are not ordered, either   *)
(* answer may be lost, and the contacts write at any time.                 *)
(***************************************************************************)
EXTENDS Naturals, Sequences, FiniteSets, FiniteSetsExt

CONSTANTS
    Contact,        \* the other users
    Nobody,         \* no contact, no request
    Limit,          \* how many messages a conversation answers at most
    MaxMessages,    \* bound: messages stored in a behaviour
    MaxLosses       \* bound: requests that fail

VARIABLES
    box,            \* private_messages: [with, mine, read], by id
    active,         \* the contacts whose account is active
    page,           \* [selected, last, list, loading]
    request,        \* the page's request for the conversation
    post,           \* the page's request that sends a message
    passed,         \* history: messages that the cursor went over unshown
    losses

vars == <<box, active, page, request, post, passed, losses>>

Message == [with : Contact, mine : BOOLEAN, read : BOOLEAN]
Id      == 1..MaxMessages
Between(c) == {m \in DOMAIN box : box[m].with = c}
FromContact(c) == {m \in Between(c) : ~box[m].mine}

Fresh == [selected |-> Nobody, last |-> 0, list |-> {}, loading |-> FALSE]

Init ==
    /\ box = <<>>
    /\ active = Contact
    /\ page = Fresh
    /\ request = Nobody /\ post = Nobody
    /\ passed = {}
    /\ losses = 0

-----------------------------------------------------------------------------
(* The page reads.                                                         *)

Asks(c, after, initial) ==
    [contact |-> c, after |-> after, initial |-> initial, served |-> FALSE, batch |-> {}]

\* selectContact; loadConversation returns at once while another one loads,
\* and what the list shows stays until the first answer for the contact.
Select ==
    /\ \E c \in Contact :
          /\ page' = [page EXCEPT !.selected = c, !.last = 0, !.loading = TRUE]
          /\ request' = IF page.loading THEN request ELSE Asks(c, 0, TRUE)
    /\ UNCHANGED <<box, active, post, passed, losses>>

\* Every three seconds.
Poll ==
    /\ page.selected # Nobody /\ ~page.loading
    /\ page' = [page EXCEPT !.loading = TRUE]
    /\ request' = Asks(page.selected, page.last, FALSE)
    /\ UNCHANGED <<box, active, post, passed, losses>>

\* The first `Limit` messages after the cursor, or the last `Limit` of all.
First(set, n)  == {m \in set : Cardinality({k \in set : k < m}) < n}
Newest(set, n) == {m \in set : Cardinality({k \in set : k > m}) < n}

Batch_Wrong(c, after) ==     \* the last ones in both cases
    Newest({m \in Between(c) : m > after}, Limit)

Batch(c, after) == IF after = 0 THEN Newest(Between(c), Limit)
                   ELSE First({m \in Between(c) : m > after}, Limit)

\* get_private_conversation: everything of the contact is read from now on,
\* whatever the answer has room for.
Serve ==
    /\ request # Nobody /\ ~request.served
    /\ request.contact \in active
    /\ request' = [request EXCEPT !.served = TRUE,
                     !.batch = Batch(request.contact, request.after)]
    /\ box' = [m \in DOMAIN box |->
                 IF m \in FromContact(request.contact) THEN [box[m] EXCEPT !.read = TRUE]
                 ELSE box[m]]
    /\ UNCHANGED <<active, page, post, passed, losses>>

\* appendMessages: what the list has already does not move the cursor.
Shows(list, last, batch) ==
    [page EXCEPT !.list = list \union batch, !.last = Max({last} \union (batch \ list)),
                 !.loading = FALSE]

Before(batch) == {m \in FromContact(page.selected) :
                     m \notin batch /\ \E k \in batch : m < k}

Arrive ==
    /\ request # Nobody /\ request.served
    /\ request' = Nobody
    /\ LET initial == request.initial
           list == IF initial THEN {} ELSE page.list
           last == IF initial THEN 0 ELSE page.last
       IN  IF request.contact # page.selected
           THEN /\ page' = [page EXCEPT !.loading = FALSE]
                /\ passed' = passed
           ELSE /\ page' = Shows(list, last, request.batch)
                /\ passed' = IF request.after = 0
                             THEN (IF initial THEN {} ELSE passed) \union Before(request.batch)
                             ELSE passed
    /\ UNCHANGED <<box, active, post, losses>>

\* The request or its answer is lost, or the contact is not available.
ReadFails ==
    /\ request # Nobody
    /\ IF request.contact \in active \/ request.served
       THEN losses < MaxLosses /\ losses' = losses + 1
       ELSE losses' = losses
    /\ request' = Nobody
    /\ page' = [page EXCEPT !.loading = FALSE]
    /\ UNCHANGED <<box, active, post, passed>>

-----------------------------------------------------------------------------
(* The page writes.                                                        *)

Submit ==
    /\ page.selected # Nobody /\ post = Nobody
    /\ post' = [contact |-> page.selected, id |-> 0]
    /\ UNCHANGED <<box, active, page, request, passed, losses>>

Stores(c, mine) ==
    /\ c \in active
    /\ Len(box) < MaxMessages
    /\ box' = Append(box, [with |-> c, mine |-> mine, read |-> FALSE])

Send ==
    /\ post # Nobody /\ post.id = 0
    /\ Stores(post.contact, TRUE)
    /\ post' = [post EXCEPT !.id = Len(box) + 1]
    /\ UNCHANGED <<active, page, request, passed, losses>>

\* The message goes to the end of the list, whatever came before it.
Sent ==
    /\ post # Nobody /\ post.id # 0
    /\ post' = Nobody
    /\ page' = [Shows(page.list, page.last, {post.id}) EXCEPT !.loading = page.loading]
    /\ passed' = passed \union (Before({post.id}) \ page.list)
    /\ UNCHANGED <<box, active, request, losses>>

SendFails ==
    /\ post # Nobody
    /\ IF post.contact \in active \/ post.id # 0
       THEN losses < MaxLosses /\ losses' = losses + 1
       ELSE losses' = losses
    /\ post' = Nobody
    /\ UNCHANGED <<box, active, page, request, passed>>

-----------------------------------------------------------------------------
(* The others.                                                             *)

Hear == /\ \E c \in Contact : Stores(c, FALSE)
        /\ UNCHANGED <<active, page, request, post, passed, losses>>

Activate == /\ \E c \in Contact :
                  active' = IF c \in active THEN active \ {c} ELSE active \union {c}
            /\ UNCHANGED <<box, page, request, post, passed, losses>>

\* loadContacts: a contact that is not in the list is not selected any more.
Forget == /\ page.selected # Nobody /\ page.selected \notin active
          /\ page' = [page EXCEPT !.selected = Nobody]
          /\ UNCHANGED <<box, active, request, post, passed, losses>>

\* The page is loaded again.
Reload == /\ page' = Fresh
          /\ request' = Nobody /\ post' = Nobody
          /\ passed' = {}
          /\ UNCHANGED <<box, active, losses>>

Next == \/ Select \/ Poll \/ Serve \/ Arrive \/ ReadFails
        \/ Submit \/ Send \/ Sent \/ SendFails
        \/ Hear \/ Activate \/ Forget \/ Reload

Spec == Init /\ [][Next]_vars

-----------------------------------------------------------------------------
(* The properties.                                                         *)

(* Every variable has its type.                                            *)
TypeOK ==
    /\ box \in Seq(Message) /\ Len(box) <= MaxMessages
    /\ active \subseteq Contact
    /\ page \in [selected : Contact \union {Nobody}, last : 0..MaxMessages,
                 list : SUBSET Id, loading : BOOLEAN]
    /\ request # Nobody => request.contact \in Contact /\ request.batch \subseteq Id
    /\ post # Nobody => post.contact \in Contact /\ post.id \in 0..MaxMessages
    /\ passed \subseteq Id
    /\ losses \in 0..MaxLosses

(* The cursor hides no message: what the contact wrote up to the last      *)
(* message that the page knows is on the page, whatever was lost, repeated *)
(* or answered late between the page's two requests.  Two things do go     *)
(* over messages, and `passed` has those and no other: the page's own      *)
(* message, stored after one that it has not fetched yet, and the `Limit`  *)
(* of a conversation's first answer.                                       *)
NothingHidden == page.selected # Nobody =>
    \A m \in FromContact(page.selected) :
        m <= page.last => m \in page.list \union passed

=============================================================================
