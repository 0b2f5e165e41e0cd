------------------------------ MODULE LinksList ------------------------------
(***************************************************************************)
(* The /links list of the Telegram bot (internal/telegram/handlers.go and  *)
(* format.go): a message with one page of the user's links and buttons to  *)
(* the neighbouring pages.  Every update runs in a goroutine of its own,   *)
(* so presses are handled late, twice, and out of order, while the user    *)
(* goes on shortening links.                                               *)
(*                                                                         *)
(* The links of a user only grow and are read in the order of their ids    *)
(* (LinkStore), so what ByUser returned is known by its length.  The       *)
(* Telegram API is modelled by its effects on the chats: a call takes      *)
(* effect or not, and an error does not tell which.                        *)
(***************************************************************************)
EXTENDS Integers, FiniteSetsExt

CONSTANTS
    Users,     \* a private chat has the id of its user
    PageSize,  \* linksPageSize
    MaxLinks,  \* bound: the links a user makes
    Handlers,  \* goroutines that handle an update of the list
    Messages,  \* bound: the list messages the bot can send
    NoUser,    \* the user of an idle handler
    NoMessage  \* no message: an inaccessible one, or one not sent yet

ASSUME ListAssumption ==
    /\ PageSize \in Nat \ {0}
    /\ MaxLinks \in Nat
    /\ NoMessage \notin Messages
    /\ NoUser \notin Users

VARIABLES
    total,    \* the number of links of each user
    message,  \* the list messages, as the chats show them
    handler   \* the goroutine of each update

vars == <<total, message, handler>>

-----------------------------------------------------------------------------
(* format.go.                                                              *)

\* Mutated form: the last, incomplete page is not counted.
FullPageCount(n) == IF n <= 0 THEN 1 ELSE n \div PageSize

linksPageCount(n) == IF n <= 0 THEN 1 ELSE (n + PageSize - 1) \div PageSize

clampPage(page, pages) ==
    IF page < 0 THEN 0 ELSE IF page >= pages THEN pages - 1 ELSE page

\* The numbers of the lines of a page.
formatLinksPage(n, page) ==
    LET start == clampPage(page, linksPageCount(n)) * PageSize
    IN {i \in 1 .. n : start < i /\ i <= start + PageSize}

\* Mutated form: both buttons on every page.
UncheckedKeyboard(page, pages) ==
    IF pages <= 1 THEN {}
    ELSE {clampPage(page, pages) - 1, clampPage(page, pages) + 1}

\* The pages that "<" and ">" lead to; their data also carries the user.
linksKeyboard(page, pages) ==
    IF pages <= 1 THEN {}
    ELSE {p \in {clampPage(page, pages) - 1, clampPage(page, pages) + 1} :
             0 <= p /\ p < pages}

-----------------------------------------------------------------------------

\* A list message: the chat it is in, whose links it lists, the numbers on it,
\* its buttons, and (history) how many links the user had when it was written.
ShownList(chat, owner, n, page) ==
    [chat    |-> chat,
     owner   |-> owner,
     lines   |-> formatLinksPage(n, page),
     buttons |-> linksKeyboard(page, linksPageCount(n)),
     had     |-> n]

Unsent == [chat |-> NoUser, owner |-> NoUser, lines |-> {}, buttons |-> {}, had |-> 0]

\* read: about to call Links.  answer, refuse, edit, send: about to call the Bot
\* API.  own: a press of a button that the bot has put on a message.
Idle == [pc |-> "idle", from |-> NoUser, data |-> NoUser, page |-> 0,
         msg |-> NoMessage, n |-> 0, callback |-> FALSE, own |-> FALSE]

Pages == -1 .. MaxLinks

TypeOK ==
    /\ total \in [Users -> 0 .. MaxLinks]
    /\ message \in [Messages ->
           [chat    : Users \cup {NoUser},
            owner   : Users \cup {NoUser},
            lines   : SUBSET (1 .. MaxLinks),
            buttons : SUBSET (0 .. MaxLinks),
            had     : 0 .. MaxLinks]]
    /\ handler \in [Handlers ->
           [pc       : {"idle", "read", "answer", "refuse", "edit", "send"},
            from     : Users \cup {NoUser},
            data     : Users \cup {NoUser},
            page     : Pages,
            msg      : Messages \cup {NoMessage},
            n        : 0 .. MaxLinks,
            callback : BOOLEAN,
            own      : BOOLEAN]]

Init ==
    /\ total = [u \in Users |-> 0]
    /\ message = [m \in Messages |-> Unsent]
    /\ handler = [h \in Handlers |-> Idle]

Goto(h, pc) == handler' = [handler EXCEPT ![h].pc = pc]
Return(h)   == handler' = [handler EXCEPT ![h] = Idle]

\* The user gets one more link (Shorten).
AddLink(u) ==
    /\ total[u] < MaxLinks
    /\ total' = [total EXCEPT ![u] = @ + 1]
    /\ UNCHANGED <<message, handler>>

\* "/links" in a private chat: page 0, in a new message.
handleLinks(h, u) ==
    /\ handler[h].pc = "idle"
    /\ handler' = [handler EXCEPT ![h] =
           [Idle EXCEPT !.pc = "read", !.from = u, !.data = u]]
    /\ UNCHANGED <<total, message>>

\* A press of a button that message m shows.  Telegram leaves the message out
\* of the update when the bot can no longer access it.
handleLinksCallback(h, m) ==
    /\ handler[h].pc = "idle"
    /\ \E page \in message[m].buttons, msg \in {m, NoMessage} :
          handler' = [handler EXCEPT ![h] =
              [Idle EXCEPT !.pc = "read", !.from = message[m].chat,
                           !.data = message[m].owner, !.page = page, !.msg = msg,
                           !.callback = TRUE, !.own = TRUE]]
    /\ UNCHANGED <<total, message>>

\* Any other callback: data of another user or for a page that the list does not
\* have, in any chat.  Data that does not parse is dropped at once.
handleOtherCallback(h, u) ==
    /\ handler[h].pc = "idle"
    /\ \E data \in Users, page \in Pages, msg \in Messages \cup {NoMessage} :
          /\ msg # NoMessage => message[msg] # Unsent
          /\ handler' = [handler EXCEPT ![h] =
                 [Idle EXCEPT !.pc = "read", !.from = u, !.data = data,
                              !.page = page, !.msg = msg, !.callback = TRUE]]
    /\ UNCHANGED <<total, message>>

\* Mutated form: the chat of the message is not looked at.
DataMatches(h) == handler[h].data = handler[h].from

\* The data is the sender's, and so is the private chat of the message.
Matches(h) ==
    /\ handler[h].data = handler[h].from
    /\ handler[h].msg # NoMessage => message[handler[h].msg].chat = handler[h].from

Reject(h) ==
    /\ handler[h].pc = "read"
    /\ ~Matches(h)
    /\ Return(h)
    /\ UNCHANGED <<total, message>>

\* Links fails: the error is the answer of a callback, the text for /links.
LinksFails(h) ==
    /\ handler[h].pc = "read"
    /\ Matches(h)
    /\ IF handler[h].callback THEN Goto(h, "refuse") ELSE Return(h)
    /\ UNCHANGED <<total, message>>

\* Mutated form: the page of the data is taken for one counted from 1.
ReadLinksFromOne(h) ==
    /\ handler[h].pc = "read"
    /\ Matches(h)
    /\ LET n == total[handler[h].from]
       IN IF handler[h].callback /\ handler[h].page \notin 1 .. linksPageCount(n)
          THEN Return(h)
          ELSE handler' = [handler EXCEPT ![h].n = n,
                   ![h].pc = IF handler[h].callback THEN "answer" ELSE "send"]
    /\ UNCHANGED <<total, message>>

\* Links of the sender.  A page out of range is dropped without an answer.
ReadLinks(h) ==
    /\ handler[h].pc = "read"
    /\ Matches(h)
    /\ LET n == total[handler[h].from]
       IN IF handler[h].callback /\ handler[h].page \notin 0 .. linksPageCount(n) - 1
          THEN Return(h)
          ELSE handler' = [handler EXCEPT ![h].n = n,
                   ![h].pc = IF handler[h].callback THEN "answer" ELSE "send"]
    /\ UNCHANGED <<total, message>>

\* answerCallback with the error.
Refuse(h) ==
    /\ handler[h].pc = "refuse"
    /\ Return(h)
    /\ UNCHANGED <<total, message>>

\* answerCallback, its error only logged; then the list.
answerCallback(h) ==
    /\ handler[h].pc = "answer"
    /\ Goto(h, IF handler[h].msg = NoMessage THEN "send" ELSE "edit")
    /\ UNCHANGED <<total, message>>

\* EditMessageText: the message shows the page, or an error is logged, or the
\* message cannot be edited and a new one is sent.
editList(h) ==
    /\ handler[h].pc = "edit"
    /\ \/ /\ message' = [message EXCEPT ![handler[h].msg] =
                 ShownList(message[handler[h].msg].chat, handler[h].from,
                           handler[h].n, handler[h].page)]
          /\ Return(h)
       \/ UNCHANGED message /\ Return(h)
       \/ UNCHANGED message /\ Goto(h, "send")
    /\ UNCHANGED total

\* SendMessage: one more message, or an error is logged.
sendList(h) ==
    /\ handler[h].pc = "send"
    /\ \/ \E m \in Messages :
             /\ message[m] = Unsent
             /\ message' = [message EXCEPT ![m] =
                    ShownList(handler[h].from, handler[h].from,
                              handler[h].n, handler[h].page)]
       \/ UNCHANGED message
    /\ Return(h)
    /\ UNCHANGED total

Next ==
    \/ \E u \in Users : AddLink(u)
    \/ \E h \in Handlers :
          \/ \E u \in Users : handleLinks(h, u) \/ handleOtherCallback(h, u)
          \/ \E m \in Messages : handleLinksCallback(h, m)
          \/ Reject(h) \/ LinksFails(h) \/ ReadLinks(h)
          \/ Refuse(h) \/ answerCallback(h) \/ editList(h) \/ sendList(h)

Spec == Init /\ [][Next]_vars

-----------------------------------------------------------------------------

\* A press of a button of the bot is always answered, however late it is
\* handled and whatever was edited since: the silent returns of
\* handleLinksCallback are not taken.
OwnPressAnswered ==
    [][\A h \in Handlers :
          handler[h].own /\ handler[h].pc = "read" => handler'[h].pc # "idle"]_vars

\* A private chat shows the list of its own user only, whatever callbacks other
\* users send and whichever message they name.
ChatShowsOwnLinks ==
    \A m \in Messages : message[m].owner = message[m].chat

\* Paging skips and repeats no link, although links are added meanwhile.  The
\* numbers on a message are links of its user; what a button leads to now joins
\* them without a gap or an overlap; and where there is no button there were no
\* more links when the message was written.
Follows(next, lines) == next # {} /\ lines # {} /\ Min(next) = Max(lines) + 1

PagingIsWhole ==
    \A m \in Messages : message[m] # Unsent =>
        LET lines   == message[m].lines
            had     == message[m].had
            page(b) == formatLinksPage(total[message[m].owner], b)
        IN /\ lines = {} <=> had = 0
           /\ lines \subseteq 1 .. had /\ Cardinality(lines) <= PageSize
           /\ \A b \in message[m].buttons :
                 Follows(page(b), lines) \/ Follows(lines, page(b))
           /\ lines # {} =>
                 /\ 1 \in lines \/ \E b \in message[m].buttons : Follows(lines, page(b))
                 /\ had \in lines \/ \E b \in message[m].buttons : Follows(page(b), lines)

=============================================================================
