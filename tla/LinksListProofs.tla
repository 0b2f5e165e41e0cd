---------------------------- MODULE LinksListProofs ----------------------------
(***************************************************************************)
(* The theorems about LinksList: any number of users, links, handlers and  *)
(* messages, any page size.  First the arithmetic of pages, then what the  *)
(* messages show and what the handlers know.                               *)
(***************************************************************************)
EXTENDS LinksList, FiniteSetTheorems, TLAPS

-----------------------------------------------------------------------------
(* Pages.                                                                  *)

LEMMA LessFactor ==
    ASSUME NEW a \in Int, NEW b \in Int, a * PageSize < b * PageSize
    PROVE  a < b
<1>1. SUFFICES ASSUME b <= a PROVE b * PageSize <= a * PageSize
  BY ListAssumption
<1>2. PageSize \in Nat /\ a - b \in Nat
  BY <1>1, ListAssumption
<1>3. (a - b) * PageSize >= 0 /\ (a - b) * PageSize = a * PageSize - b * PageSize
  BY <1>2
<1> QED
  BY <1>2, <1>3

\* linksPageCount: the last page has a link, and it is the last one.
LEMMA PageCount ==
    ASSUME NEW n \in Nat
    PROVE  /\ linksPageCount(n) \in Nat \ {0}
           /\ n <= linksPageCount(n) * PageSize
           /\ n > 0 => (linksPageCount(n) - 1) * PageSize < n
           /\ n > 0 => linksPageCount(n) <= n
           /\ n = 0 => linksPageCount(n) = 1
<1>1. CASE n = 0
  BY <1>1, ListAssumption DEF linksPageCount
<1>2. CASE n > 0
  <2> DEFINE q == (n + PageSize - 1) \div PageSize
             r == (n + PageSize - 1) % PageSize
  <2>1. PageSize \in Nat /\ PageSize > 0 /\ linksPageCount(n) = q
    BY <1>2, ListAssumption DEF linksPageCount
  <2>2. q \in Int /\ r \in 0 .. PageSize - 1 /\ n + PageSize - 1 = PageSize * q + r
    BY <1>2, <2>1
  <2> HIDE DEF q, r
  <2>3. n <= q * PageSize /\ q * PageSize = (q - 1) * PageSize + PageSize /\ (q - 1) * PageSize < n
    BY <2>1, <2>2
  <2>4. 0 < q
    <3>1. 0 * PageSize < q * PageSize
      BY <1>2, <2>1, <2>2, <2>3
    <3> QED
      BY <3>1, <2>2, LessFactor
  <2>5. q <= n
    <3>1. (q - 1) * PageSize < n * PageSize
      BY <1>2, <2>1, <2>2, <2>3
    <3>2. q - 1 < n
      BY <3>1, <2>2, LessFactor
    <3> QED
      BY <2>2, <3>2
  <2> QED
    BY <1>2, <2>1, <2>2, <2>3, <2>4, <2>5
<1> QED
  BY <1>1, <1>2

LEMMA PageCountMonotone ==
    ASSUME NEW n \in Nat, NEW t \in Nat, n <= t
    PROVE  linksPageCount(n) <= linksPageCount(t)
<1>1. CASE n = 0
  BY <1>1, PageCount
<1>2. CASE n > 0
  <2>1. (linksPageCount(n) - 1) * PageSize < linksPageCount(t) * PageSize
    BY <1>2, PageCount, ListAssumption
  <2>2. linksPageCount(n) - 1 < linksPageCount(t)
    BY <2>1, PageCount, LessFactor
  <2> QED
    BY <2>2, PageCount
<1> QED
  BY <1>1, <1>2

LEMMA IntervalSize ==
    ASSUME NEW a \in Nat, NEW size \in Nat
    PROVE  IsFiniteSet(a + 1 .. a + size) /\ Cardinality(a + 1 .. a + size) = size
<1>1. \A x, y \in Int : /\ IsFiniteSet(x .. y)
                        /\ Cardinality(x .. y) = IF x > y THEN 0 ELSE y - x + 1
  BY FS_Interval
<1>2. a + 1 \in Int /\ a + size \in Int
  OBVIOUS
<1> DEFINE x == a + 1
           y == a + size
<1> HIDE DEF x, y
<1>3. x \in Int /\ y \in Int
  BY <1>2 DEF x, y
<1>4. IsFiniteSet(x .. y) /\ Cardinality(x .. y) = IF x > y THEN 0 ELSE y - x + 1
  BY <1>1, <1>3
<1> QED
  BY <1>4 DEF x, y

LEMMA MaxIs ==
    ASSUME NEW S \in SUBSET Int, NEW m \in S, \A x \in S : x <= m
    PROVE  Max(S) = m
<1>1. \A y \in S : m >= y
  OBVIOUS
<1>2. Max(S) \in S /\ \A y \in S : Max(S) >= y
  BY <1>1 DEF Max
<1>3. Max(S) \in Int /\ m \in Int
  BY <1>2
<1>4. Max(S) >= m /\ m >= Max(S)
  BY <1>1, <1>2
<1> QED
  BY <1>3, <1>4

LEMMA MinIs ==
    ASSUME NEW S \in SUBSET Int, NEW m \in S, \A x \in S : m <= x
    PROVE  Min(S) = m
<1>1. \A y \in S : m <= y
  OBVIOUS
<1>2. Min(S) \in S /\ \A y \in S : Min(S) <= y
  BY <1>1 DEF Min
<1>3. Min(S) \in Int /\ m \in Int
  BY <1>2
<1>4. Min(S) <= m /\ m <= Min(S)
  BY <1>1, <1>2
<1> QED
  BY <1>3, <1>4

\* formatLinksPage: a page of the list begins right after the pages before it, is full
\* unless the list ends on it, and has a line unless there are no links.
LEMMA PageLines ==
    ASSUME NEW n \in Nat, NEW k \in 0 .. linksPageCount(n) - 1
    PROVE  LET lines == formatLinksPage(n, k)
           IN  /\ lines \subseteq 1 .. n
               /\ Cardinality(lines) <= PageSize
               /\ lines = {} <=> n = 0
               /\ n > 0 => k * PageSize < n /\ Min(lines) = k * PageSize + 1
               /\ k * PageSize + PageSize <= n => Max(lines) = k * PageSize + PageSize
               /\ k = linksPageCount(n) - 1 /\ n > 0 => n \in lines
               /\ k = 0 /\ n > 0 => 1 \in lines
<1> DEFINE lines == formatLinksPage(n, k)
           before == k * PageSize
<1>1. PageSize \in Nat /\ PageSize > 0 /\ k \in Nat /\ linksPageCount(n) \in Nat \ {0}
  BY ListAssumption, PageCount
<1>2. before \in Nat
  BY <1>1
<1>3. clampPage(k, linksPageCount(n)) = k
  BY <1>1 DEF clampPage
<1>4. lines = {i \in 1 .. n : before < i /\ i <= before + PageSize}
  BY <1>3 DEF formatLinksPage
<1>5. n > 0 => before < n
  <2>1. SUFFICES ASSUME n > 0 PROVE before < n
    OBVIOUS
  <2>2. (linksPageCount(n) - 1) * PageSize < n
    BY <2>1, PageCount
  <2>3. linksPageCount(n) - 1 - k \in Nat
    BY <1>1
  <2>4. (linksPageCount(n) - 1 - k) * PageSize >= 0
    BY <1>1, <2>3
  <2>5. (linksPageCount(n) - 1 - k) * PageSize = (linksPageCount(n) - 1) * PageSize - before
    BY <1>1
  <2>6. (linksPageCount(n) - 1) * PageSize \in Int
    BY <1>1
  <2> QED
    BY <1>2, <2>2, <2>4, <2>5, <2>6
<1>6. k = linksPageCount(n) - 1 => n <= before + PageSize
  <2>1. n <= linksPageCount(n) * PageSize
    BY PageCount
  <2>2. (linksPageCount(n) - 1) * PageSize + PageSize = linksPageCount(n) * PageSize
    BY <1>1
  <2> QED
    BY <2>1, <2>2
<1> HIDE DEF before, lines
<1>7. lines \subseteq before + 1 .. before + PageSize /\ lines \subseteq 1 .. n
  BY <1>1, <1>2, <1>4
<1>8. Cardinality(lines) <= PageSize
  <2>1. /\ IsFiniteSet(before + 1 .. before + PageSize)
        /\ Cardinality(before + 1 .. before + PageSize) = PageSize
    BY <1>1, <1>2, IntervalSize
  <2> QED
    BY <1>7, <2>1, FS_Subset
<1>9. n > 0 => before + 1 \in lines /\ Min(lines) = before + 1
  <2>1. SUFFICES ASSUME n > 0 PROVE before + 1 \in lines /\ Min(lines) = before + 1
    OBVIOUS
  <2>2. before + 1 \in lines
    BY <1>1, <1>2, <1>4, <1>5, <2>1
  <2>3. lines \in SUBSET Int /\ \A x \in lines : before + 1 <= x
    BY <1>2, <1>4
  <2> QED
    BY <2>2, <2>3, MinIs
<1>10. before + PageSize <= n => Max(lines) = before + PageSize
  <2>1. SUFFICES ASSUME before + PageSize <= n PROVE Max(lines) = before + PageSize
    OBVIOUS
  <2>2. before + PageSize \in lines
    BY <1>1, <1>2, <1>4, <2>1
  <2>3. lines \in SUBSET Int /\ \A x \in lines : x <= before + PageSize
    BY <1>2, <1>4
  <2> QED
    BY <2>2, <2>3, MaxIs
<1>11. lines = {} <=> n = 0
  BY <1>4, <1>9
<1>12. k = linksPageCount(n) - 1 /\ n > 0 => n \in lines
  BY <1>2, <1>4, <1>5, <1>6
<1>13. k = 0 /\ n > 0 => 1 \in lines
  <2>1. k = 0 => before = 0
    BY <1>1 DEF before
  <2> QED
    BY <1>1, <1>4, <2>1
<1> QED
  BY <1>5, <1>7, <1>8, <1>9, <1>10, <1>11, <1>12, <1>13 DEF lines, before

\* The pages next to a page are read later, from a list that may have grown, and still
\* join it.
LEMMA NeighbouringPages ==
    ASSUME NEW n \in Nat, NEW t \in Nat, n > 0, n <= t,
           NEW k \in 0 .. linksPageCount(n) - 1
    PROVE  LET lines == formatLinksPage(n, k)
           IN  /\ k + 1 < linksPageCount(n) => Follows(formatLinksPage(t, k + 1), lines)
               /\ k > 0 => Follows(lines, formatLinksPage(t, k - 1))
<1> DEFINE pages == linksPageCount(n)
<1>1. /\ PageSize \in Nat /\ PageSize > 0 /\ k \in Nat /\ pages \in Nat
      /\ linksPageCount(t) \in Nat \ {0} /\ pages <= linksPageCount(t)
  <2>1. linksPageCount(n) \in Nat \ {0} /\ linksPageCount(t) \in Nat \ {0}
    BY PageCount
  <2>2. linksPageCount(n) <= linksPageCount(t)
    BY PageCountMonotone
  <2> QED
    BY <2>1, <2>2, ListAssumption
<1>2. formatLinksPage(n, k) # {} /\ Min(formatLinksPage(n, k)) = k * PageSize + 1
  BY PageLines
<1>3. k * PageSize < n
  BY PageLines
<1>4. k + 1 < pages => Follows(formatLinksPage(t, k + 1), formatLinksPage(n, k))
  <2>1. SUFFICES ASSUME k + 1 < pages
                 PROVE  Follows(formatLinksPage(t, k + 1), formatLinksPage(n, k))
    OBVIOUS
  <2>2. k + 1 \in 0 .. pages - 1 /\ k + 1 \in 0 .. linksPageCount(t) - 1
    BY <1>1, <2>1
  <2>3. (k + 1) * PageSize < n /\ (k + 1) * PageSize = k * PageSize + PageSize
    <3>1. (k + 1) * PageSize < n
      BY <2>2, PageLines
    <3> QED
      BY <3>1, <1>1
  <2>4. Max(formatLinksPage(n, k)) = k * PageSize + PageSize
    <3>1. k * PageSize \in Nat /\ k * PageSize + PageSize <= n
      BY <1>1, <2>3
    <3> QED
      BY <3>1, PageLines
  <2>5. formatLinksPage(t, k + 1) # {} /\ Min(formatLinksPage(t, k + 1)) = (k + 1) * PageSize + 1
    BY <2>2, PageLines
  <2> QED
    BY <1>2, <2>3, <2>4, <2>5 DEF Follows
<1>5. k > 0 => Follows(formatLinksPage(n, k), formatLinksPage(t, k - 1))
  <2>1. SUFFICES ASSUME k > 0
                 PROVE  Follows(formatLinksPage(n, k), formatLinksPage(t, k - 1))
    OBVIOUS
  <2>2. k - 1 \in 0 .. linksPageCount(t) - 1
    BY <1>1, <2>1
  <2>3. (k - 1) * PageSize + PageSize = k * PageSize /\ k * PageSize \in Nat
    BY <1>1, <2>1
  <2>4. Max(formatLinksPage(t, k - 1)) = k * PageSize
    <3>1. (k - 1) * PageSize + PageSize <= t
      BY <1>3, <2>3
    <3> QED
      BY <2>2, <2>3, <3>1, PageLines
  <2>5. formatLinksPage(t, k - 1) # {}
    BY <2>2, PageLines
  <2> QED
    BY <1>2, <2>4, <2>5 DEF Follows
<1> QED
  BY <1>4, <1>5

-----------------------------------------------------------------------------
(* What messages and handlers are.                                         *)

\* A list message is one page of the links its user had.
OnPage(shown, k) ==
    /\ shown.lines = formatLinksPage(shown.had, k)
    /\ shown.buttons = {b \in {k - 1, k + 1} : 0 <= b /\ b < linksPageCount(shown.had)}

ShowsAPage(shown, links) ==
    /\ shown.owner = shown.chat
    /\ shown # Unsent =>
        /\ shown.chat \in Users
        /\ shown.had <= links[shown.chat]
        /\ \E k \in 0 .. linksPageCount(shown.had) - 1 : OnPage(shown, k)

\* A handler that is past its checks writes to the chat of its user; a press of a button
\* of the bot passes them.
Knows(call, links, shown) ==
    /\ call.pc # "idle" => call.from \in Users
    /\ call.pc \in {"answer", "edit", "send"} => call.n <= links[call.from]
    /\ call.pc \in {"answer", "edit"} /\ call.msg # NoMessage => shown[call.msg].chat = call.from
    /\ call.pc = "edit" => call.msg # NoMessage
    /\ call.pc = "read" /\ call.own =>
        /\ call.callback /\ call.data = call.from
        /\ call.msg # NoMessage => shown[call.msg].chat = call.from
        /\ call.page \in 0 .. linksPageCount(links[call.from]) - 1

IInv ==
    /\ TypeOK
    /\ \A m \in Messages : ShowsAPage(message[m], total)
    /\ \A h \in Handlers : Knows(handler[h], total, message)

Shown == [chat : Users \cup {NoUser}, owner : Users \cup {NoUser}, lines : SUBSET (1 .. MaxLinks),
          buttons : SUBSET (0 .. MaxLinks), had : 0 .. MaxLinks]
Handler == [pc : {"idle", "read", "answer", "refuse", "edit", "send"},
            from : Users \cup {NoUser}, data : Users \cup {NoUser}, page : Pages,
            msg : Messages \cup {NoMessage}, n : 0 .. MaxLinks, callback : BOOLEAN, own : BOOLEAN]
Totals == [Users -> 0 .. MaxLinks]

LEMMA Types ==
    TypeOK <=> total \in Totals /\ message \in [Messages -> Shown] /\ handler \in [Handlers -> Handler]
BY DEF TypeOK, Shown, Handler, Totals

\* sendList and editList: whatever page is asked for, one of the list is shown.
LEMMA ShownPage ==
    ASSUME NEW u \in Users, NEW n \in 0 .. MaxLinks, NEW page \in Pages
    PROVE  LET shown == ShownList(u, u, n, page)
           IN  /\ shown \in Shown
               /\ shown.chat = u /\ shown.owner = u /\ shown.had = n
               /\ \A links \in Totals : n <= links[u] => ShowsAPage(shown, links)
<1> DEFINE shown == ShownList(u, u, n, page)
           pages == linksPageCount(n)
           k == clampPage(page, pages)
<1>1. n \in Nat /\ MaxLinks \in Nat /\ n <= MaxLinks /\ page \in Int
  BY ListAssumption DEF Pages
<1>2. pages \in Nat \ {0} /\ pages <= n + 1
  BY <1>1, PageCount
<1> HIDE DEF pages
<1>3. k \in 0 .. pages - 1
  BY <1>1, <1>2 DEF clampPage
<1>4. clampPage(k, pages) = k
  <2>1. \A j \in 0 .. pages - 1 : clampPage(j, pages) = j
    BY <1>2 DEF clampPage
  <2> HIDE DEF k
  <2> QED
    BY <1>3, <2>1
<1>5. formatLinksPage(n, page) = formatLinksPage(n, k)
  BY <1>4 DEF formatLinksPage, pages
<1>6. linksKeyboard(page, pages) = {b \in {k - 1, k + 1} : 0 <= b /\ b < pages}
  BY <1>2, <1>3 DEF linksKeyboard
<1> HIDE DEF k
<1>7. /\ shown.chat = u /\ shown.owner = u /\ shown.had = n
      /\ shown.lines = formatLinksPage(n, k)
      /\ shown.buttons = {b \in {k - 1, k + 1} : 0 <= b /\ b < pages}
  BY <1>5, <1>6 DEF ShownList, pages
<1>8. OnPage(shown, k)
  BY <1>3, <1>7 DEF OnPage, pages
<1>9. formatLinksPage(n, k) \subseteq 1 .. MaxLinks
  BY <1>1, <1>3, PageLines DEF pages
<1>10. {b \in {k - 1, k + 1} : 0 <= b /\ b < pages} \in SUBSET (0 .. MaxLinks)
  <2>1. CASE n = 0
    <3>1. pages = 1
      BY <2>1, PageCount DEF pages
    <3> QED
      BY <3>1, <1>1, <1>3
  <2>2. CASE n > 0
    <3>1. pages <= n
      BY <1>1, <2>2, PageCount DEF pages
    <3> QED
      BY <3>1, <1>1, <1>2, <1>3
  <2> QED
    BY <1>1, <2>1, <2>2
<1>11. shown \in Shown
  <2> DEFINE lines == formatLinksPage(n, k)
             buttons == {b \in {k - 1, k + 1} : 0 <= b /\ b < pages}
  <2>1. shown = [chat |-> u, owner |-> u, lines |-> lines, buttons |-> buttons, had |-> n]
    BY <1>5, <1>6 DEF ShownList, pages
  <2>2. lines \in SUBSET (1 .. MaxLinks) /\ buttons \in SUBSET (0 .. MaxLinks)
    BY <1>9, <1>10
  <2> HIDE DEF lines, buttons, shown
  <2> QED
    BY <2>1, <2>2 DEF Shown
<1>12. \A links \in Totals : n <= links[u] => ShowsAPage(shown, links)
  BY <1>3, <1>7, <1>8 DEF ShowsAPage, pages
<1> QED
  BY <1>7, <1>11, <1>12

-----------------------------------------------------------------------------
(* What a longer list and a new page on a message leave true.              *)

LEMMA StillShows ==
    ASSUME NEW links \in Totals, NEW after \in Totals, \A u \in Users : links[u] <= after[u],
           NEW shown \in Shown, ShowsAPage(shown, links)
    PROVE  ShowsAPage(shown, after)
<1>1. SUFFICES ASSUME shown # Unsent PROVE shown.had <= after[shown.chat]
  BY DEF ShowsAPage
<1>2. shown.chat \in Users /\ shown.had <= links[shown.chat]
  BY <1>1 DEF ShowsAPage
<1>3. shown.had \in Int /\ links[shown.chat] \in Int /\ after[shown.chat] \in Int
  BY <1>2 DEF Shown, Totals
<1>4. links[shown.chat] <= after[shown.chat]
  BY <1>2
<1> QED
  BY <1>2, <1>3, <1>4

LEMMA StillKnows ==
    ASSUME NEW links \in Totals, NEW after \in Totals, \A u \in Users : links[u] <= after[u],
           NEW shown, NEW shownAfter,
           \A m \in Messages : shown[m].chat \in Users => shownAfter[m].chat = shown[m].chat,
           NEW call \in Handler, Knows(call, links, shown)
    PROVE  Knows(call, after, shownAfter)
<1>1. CASE call.pc = "idle"
  BY <1>1 DEF Knows
<1>2. CASE call.pc # "idle"
  <2>1. call.from \in Users
    BY <1>2 DEF Knows
  <2>2. /\ links[call.from] \in Nat /\ after[call.from] \in Nat /\ call.n \in Nat /\ call.page \in Int
        /\ links[call.from] <= after[call.from]
    BY <2>1, ListAssumption DEF Totals, Handler, Pages
  <2>3. call.msg # NoMessage /\ shown[call.msg].chat = call.from => shownAfter[call.msg].chat = call.from
    BY <2>1 DEF Handler
  <2>4. call.n <= links[call.from] => call.n <= after[call.from]
    BY <2>2
  <2>5. call.page \in 0 .. linksPageCount(links[call.from]) - 1
            => call.page \in 0 .. linksPageCount(after[call.from]) - 1
    <3> DEFINE then == linksPageCount(links[call.from])
               now == linksPageCount(after[call.from])
    <3>1. then \in Nat /\ now \in Nat /\ then <= now
      BY <2>2, PageCount, PageCountMonotone
    <3> HIDE DEF then, now
    <3>2. call.page \in 0 .. then - 1 => call.page \in 0 .. now - 1
      BY <3>1, <2>2
    <3> QED
      BY <3>2 DEF then, now
  <2> QED
    BY <1>2, <2>1, <2>3, <2>4, <2>5 DEF Knows
<1> QED
  BY <1>1, <1>2

\* The steps of one handler that change nothing else.
LEMMA HandlerStep ==
    ASSUME IInv, NEW h \in Handlers, NEW call \in Handler, Knows(call, total, message),
           handler' = [handler EXCEPT ![h] = call], UNCHANGED <<total, message>>
    PROVE  IInv'
<1>1. TypeOK'
  BY Types DEF IInv, TypeOK, Handler
<1>2. \A m \in Messages : ShowsAPage(message'[m], total')
  BY DEF IInv
<1>3. \A g \in Handlers : handler'[g] = call \/ handler'[g] = handler[g]
  BY Types DEF IInv
<1>4. \A g \in Handlers : Knows(handler'[g], total', message')
  BY <1>3 DEF IInv
<1> QED
  BY <1>1, <1>2, <1>4 DEF IInv

\* The steps that write a message and end the handler.
LEMMA WriteStep ==
    ASSUME IInv, NEW h \in Handlers, NEW m \in Messages, NEW shown \in Shown,
           ShowsAPage(shown, total), message[m].chat \in Users => shown.chat = message[m].chat,
           message' = [message EXCEPT ![m] = shown],
           handler' = [handler EXCEPT ![h] = Idle], UNCHANGED total
    PROVE  IInv'
<1>1. total \in Totals /\ message \in [Messages -> Shown] /\ handler \in [Handlers -> Handler]
  BY Types DEF IInv
<1>2. Idle \in Handler /\ Idle.pc = "idle"
  BY ListAssumption DEF Idle, Handler, Pages
<1>3. TypeOK'
  <2>1. message' \in [Messages -> Shown] /\ handler' \in [Handlers -> Handler]
    BY <1>1, <1>2
  <2> QED
    BY <1>1, <2>1 DEF TypeOK, Shown, Handler, Totals
<1>4. \A k \in Messages : ShowsAPage(message'[k], total')
  BY <1>1 DEF IInv
<1>5. \A k \in Messages : message[k].chat \in Users => message'[k].chat = message[k].chat
  BY <1>1
<1>6. \A u \in Users : total[u] <= total[u]
  BY <1>1, ListAssumption DEF Totals
<1>7. ASSUME NEW g \in Handlers PROVE Knows(handler'[g], total', message')
  <2>1. CASE g = h
    BY <1>1, <1>2, <2>1 DEF Knows
  <2>2. CASE g # h
    <3>1. handler'[g] = handler[g] /\ handler[g] \in Handler /\ Knows(handler[g], total, message)
      BY <1>1, <2>2 DEF IInv
    <3> QED
      BY <1>1, <1>5, <1>6, <3>1, StillKnows
  <2> QED
    BY <2>1, <2>2
<1> QED
  BY <1>3, <1>4, <1>7 DEF IInv

-----------------------------------------------------------------------------
(* The steps.                                                              *)

LEMMA InitIInv == Init => IInv
<1> SUFFICES ASSUME Init PROVE IInv
  OBVIOUS
<1>1. Unsent \in Shown /\ Idle \in Handler /\ Idle.pc = "idle" /\ Unsent.owner = Unsent.chat
  BY ListAssumption DEF Unsent, Shown, Idle, Handler, Pages
<1>2. TypeOK
  <2>1. total \in Totals /\ message \in [Messages -> Shown] /\ handler \in [Handlers -> Handler]
    BY <1>1, ListAssumption DEF Init, Totals
  <2> QED
    BY <2>1, Types
<1>3. \A m \in Messages : ShowsAPage(message[m], total)
  BY <1>1 DEF Init, ShowsAPage
<1>4. \A h \in Handlers : Knows(handler[h], total, message)
  BY <1>1 DEF Init, Knows
<1> QED
  BY <1>2, <1>3, <1>4 DEF IInv

\* Shorten: a longer list takes nothing away from what messages and handlers are.
LEMMA AddLinkStep ==
    ASSUME IInv, NEW u \in Users, AddLink(u)
    PROVE  IInv'
<1>1. total \in Totals /\ message \in [Messages -> Shown] /\ handler \in [Handlers -> Handler]
  BY Types DEF IInv
<1>2. total' \in Totals /\ message' = message /\ handler' = handler
  BY <1>1, ListAssumption DEF AddLink, Totals
<1>3. \A v \in Users : total[v] <= total'[v]
  BY <1>1, ListAssumption DEF AddLink, Totals
<1>4. TypeOK'
  BY <1>1, <1>2 DEF TypeOK, Shown, Handler, Totals
<1>5. ASSUME NEW m \in Messages PROVE ShowsAPage(message[m], total')
  <2>1. message[m] \in Shown /\ ShowsAPage(message[m], total)
    BY <1>1 DEF IInv
  <2> QED
    BY <1>1, <1>2, <1>3, <2>1, StillShows
<1>6. ASSUME NEW h \in Handlers PROVE Knows(handler[h], total', message)
  <2>1. handler[h] \in Handler /\ Knows(handler[h], total, message)
    BY <1>1 DEF IInv
  <2>2. \A m \in Messages : message[m].chat \in Users => message[m].chat = message[m].chat
    OBVIOUS
  <2> QED
    BY <1>1, <1>2, <1>3, <2>1, <2>2, StillKnows
<1> QED
  BY <1>2, <1>4, <1>5, <1>6 DEF IInv

\* A button leads to a page of the list, which is then at least as long as it was.
LEMMA ButtonInRange ==
    ASSUME IInv, NEW m \in Messages, NEW page \in message[m].buttons
    PROVE  /\ message[m].chat \in Users /\ message[m].owner = message[m].chat
           /\ page \in 0 .. linksPageCount(total[message[m].chat]) - 1
<1>1. message[m] \in Shown /\ ShowsAPage(message[m], total) /\ total \in Totals
  BY Types DEF IInv
<1>2. message[m] # Unsent
  BY DEF Unsent
<1> DEFINE then == linksPageCount(message[m].had)
           now == linksPageCount(total[message[m].chat])
<1>3. /\ message[m].chat \in Users /\ message[m].owner = message[m].chat
      /\ message[m].had <= total[message[m].chat]
  BY <1>1, <1>2 DEF ShowsAPage
<1>4. message[m].had \in Nat /\ total[message[m].chat] \in Nat
  BY <1>1, <1>3, ListAssumption DEF Shown, Totals
<1>5. then \in Nat /\ now \in Nat /\ then <= now
  BY <1>3, <1>4, PageCount, PageCountMonotone
<1>6. page \in Int /\ 0 <= page /\ page < then
  <2>1. PICK k \in 0 .. then - 1 : OnPage(message[m], k)
    BY <1>1, <1>2 DEF ShowsAPage
  <2> HIDE DEF then
  <2> QED
    BY <1>5, <2>1 DEF OnPage, then
<1> HIDE DEF then, now
<1>7. page \in 0 .. now - 1
  BY <1>5, <1>6
<1> QED
  BY <1>3, <1>7 DEF now

LEMMA IdleHandler == Idle \in Handler
BY ListAssumption DEF Idle, Handler, Pages

LEMMA PressStep ==
    ASSUME IInv, NEW h \in Handlers, NEW m \in Messages, handleLinksCallback(h, m)
    PROVE  IInv'
<1>1. PICK page \in message[m].buttons, msg \in {m, NoMessage} :
          handler' = [handler EXCEPT ![h] =
              [Idle EXCEPT !.pc = "read", !.from = message[m].chat,
                           !.data = message[m].owner, !.page = page, !.msg = msg,
                           !.callback = TRUE, !.own = TRUE]]
  BY DEF handleLinksCallback
<1> DEFINE call == [Idle EXCEPT !.pc = "read", !.from = message[m].chat,
                           !.data = message[m].owner, !.page = page, !.msg = msg,
                           !.callback = TRUE, !.own = TRUE]
<1>2. message \in [Messages -> Shown] /\ total \in Totals
  BY Types DEF IInv
<1>3. /\ message[m].chat \in Users /\ message[m].owner = message[m].chat
      /\ page \in 0 .. linksPageCount(total[message[m].chat]) - 1
  BY ButtonInRange
<1>4. page \in Pages
  BY <1>2, ListAssumption DEF Shown, Pages
<1>5. call \in Handler
  BY <1>3, <1>4, IdleHandler DEF Handler
<1>6. Knows(call, total, message)
  BY <1>3 DEF Idle, Knows
<1>7. UNCHANGED <<total, message>> /\ handler' = [handler EXCEPT ![h] = call]
  BY <1>1 DEF handleLinksCallback
<1> HIDE DEF call
<1> QED
  BY <1>5, <1>6, <1>7, HandlerStep

LEMMA StartStep ==
    ASSUME IInv, NEW h \in Handlers, NEW u \in Users, handleLinks(h, u) \/ handleOtherCallback(h, u)
    PROVE  IInv'
<1>1. CASE handleLinks(h, u)
  <2> DEFINE call == [Idle EXCEPT !.pc = "read", !.from = u, !.data = u]
  <2>1. call \in Handler
    BY IdleHandler DEF Handler
  <2> call.pc = "read" /\ call.from = u /\ ~call.own
    BY DEF Idle
  <2>3. Knows(call, total, message)
    BY DEF Knows
  <2>2. UNCHANGED <<total, message>> /\ handler' = [handler EXCEPT ![h] = call]
    BY <1>1 DEF handleLinks
  <2> HIDE DEF call
  <2> QED
    BY <2>1, <2>2, <2>3, HandlerStep
<1>2. CASE handleOtherCallback(h, u)
  <2>1. PICK data \in Users, page \in Pages, msg \in Messages \cup {NoMessage} :
          handler' = [handler EXCEPT ![h] =
                 [Idle EXCEPT !.pc = "read", !.from = u, !.data = data,
                              !.page = page, !.msg = msg, !.callback = TRUE]]
    BY <1>2 DEF handleOtherCallback
  <2> DEFINE call == [Idle EXCEPT !.pc = "read", !.from = u, !.data = data,
                              !.page = page, !.msg = msg, !.callback = TRUE]
  <2>2. call \in Handler
    BY IdleHandler DEF Handler
  <2> call.pc = "read" /\ call.from = u /\ ~call.own
    BY DEF Idle
  <2>4. Knows(call, total, message)
    BY DEF Knows
  <2>3. UNCHANGED <<total, message>> /\ handler' = [handler EXCEPT ![h] = call]
    BY <1>2, <2>1 DEF handleOtherCallback
  <2> HIDE DEF call
  <2> QED
    BY <2>2, <2>3, <2>4, HandlerStep
<1> QED
  BY <1>1, <1>2

\* The handler returns, or goes on to a step that asks for no more than it knows.
LEMMA ReturnStep ==
    ASSUME IInv, NEW h \in Handlers, Return(h), UNCHANGED <<total, message>>
    PROVE  IInv'
<1>1. Idle \in Handler /\ Knows(Idle, total, message)
  BY ListAssumption DEF Idle, Handler, Pages, Knows
<1> QED
  BY <1>1, HandlerStep DEF Return

LEMMA GotoStep ==
    ASSUME IInv, NEW h \in Handlers, NEW pc \in {"refuse", "edit", "send"}, Goto(h, pc),
           UNCHANGED <<total, message>>, Knows([handler[h] EXCEPT !.pc = pc], total, message)
    PROVE  IInv'
<1>1. handler \in [Handlers -> Handler]
  BY Types DEF IInv
<1>2. [handler[h] EXCEPT !.pc = pc] \in Handler
  BY <1>1 DEF Handler
<1>3. handler' = [handler EXCEPT ![h] = [handler[h] EXCEPT !.pc = pc]]
  BY <1>1 DEF Goto
<1> QED
  BY <1>2, <1>3, HandlerStep

LEMMA ReadStep ==
    ASSUME IInv, NEW h \in Handlers, Reject(h) \/ LinksFails(h) \/ ReadLinks(h) \/ Refuse(h)
    PROVE  IInv'
<1>1. handler[h] \in Handler /\ Knows(handler[h], total, message) /\ total \in Totals
  BY Types DEF IInv
<1>2. CASE Reject(h)
  BY <1>2, ReturnStep DEF Reject
<1>3. CASE LinksFails(h)
  <2>1. Knows([handler[h] EXCEPT !.pc = "refuse"], total, message)
    BY <1>1, <1>3 DEF LinksFails, Knows, Handler
  <2> QED
    BY <1>3, <2>1, ReturnStep, GotoStep DEF LinksFails
<1>4. CASE ReadLinks(h)
  <2> DEFINE n == total[handler[h].from]
             call == [handler[h] EXCEPT !.n = n,
                          !.pc = IF handler[h].callback THEN "answer" ELSE "send"]
  <2>1. handler[h].from \in Users /\ Matches(h) /\ UNCHANGED <<total, message>>
    BY <1>1, <1>4 DEF ReadLinks, Knows
  <2>2. n \in 0 .. MaxLinks /\ n <= n
    BY <1>1, <2>1, ListAssumption DEF Totals
  <2>3. Return(h) \/ handler' = [handler EXCEPT ![h].n = n,
                   ![h].pc = IF handler[h].callback THEN "answer" ELSE "send"]
    BY <1>4 DEF ReadLinks
  <2>4. handler \in [Handlers -> Handler]
    BY Types DEF IInv
  <2> HIDE DEF n
  <2>5. call \in Handler
    BY <1>1, <2>2 DEF Handler
  <2>6. Knows(call, total, message)
    BY <1>1, <2>1, <2>2 DEF Knows, Matches, Handler, n
  <2>7. Return(h) \/ handler' = [handler EXCEPT ![h] = call]
    BY <2>3, <2>4
  <2> HIDE DEF call
  <2> QED
    BY <2>1, <2>5, <2>6, <2>7, ReturnStep, HandlerStep
<1>5. CASE Refuse(h)
  BY <1>5, ReturnStep DEF Refuse
<1> QED
  BY <1>2, <1>3, <1>4, <1>5

LEMMA AnswerStep ==
    ASSUME IInv, NEW h \in Handlers, answerCallback(h)
    PROVE  IInv'
<1> DEFINE pc == IF handler[h].msg = NoMessage THEN "send" ELSE "edit"
<1>1. handler[h] \in Handler /\ Knows(handler[h], total, message)
  BY Types DEF IInv
<1>2. Knows([handler[h] EXCEPT !.pc = pc], total, message)
  BY <1>1 DEF answerCallback, Knows, Handler
<1>3. pc \in {"refuse", "edit", "send"} /\ Goto(h, pc) /\ UNCHANGED <<total, message>>
  BY DEF answerCallback
<1> HIDE DEF pc
<1> QED
  BY <1>2, <1>3, GotoStep

LEMMA EditStep ==
    ASSUME IInv, NEW h \in Handlers, editList(h)
    PROVE  IInv'
<1> DEFINE c == handler[h]
           shown == ShownList(message[c.msg].chat, c.from, c.n, c.page)
<1>1. c \in Handler /\ Knows(c, total, message) /\ total \in Totals /\ message \in [Messages -> Shown]
  BY Types DEF IInv
<1>2. c.pc = "edit" /\ c.from \in Users /\ c.msg \in Messages /\ message[c.msg].chat = c.from
  BY <1>1 DEF editList, Knows, Handler
<1>3. c.n \in 0 .. MaxLinks /\ c.page \in Pages /\ c.n <= total[c.from]
  BY <1>1, <1>2 DEF Knows, Handler
<1>4. CASE UNCHANGED message
  <2>1. Knows([c EXCEPT !.pc = "send"], total, message)
    BY <1>1, <1>2 DEF Knows, Handler
  <2> QED
    BY <1>4, <2>1, ReturnStep, GotoStep DEF editList
<1>5. CASE message' # message
  <2>1. message' = [message EXCEPT ![c.msg] = shown] /\ handler' = [handler EXCEPT ![h] = Idle]
        /\ UNCHANGED total
    BY <1>5 DEF editList, Return
  <2>2. shown \in Shown /\ shown.chat = c.from /\ ShowsAPage(shown, total)
    BY <1>1, <1>2, <1>3, ShownPage
  <2> HIDE DEF shown
  <2> QED
    BY <1>2, <2>1, <2>2, WriteStep
<1> QED
  BY <1>4, <1>5

LEMMA SendStep ==
    ASSUME IInv, NEW h \in Handlers, sendList(h)
    PROVE  IInv'
<1> DEFINE c == handler[h]
           shown == ShownList(c.from, c.from, c.n, c.page)
<1>1. c \in Handler /\ Knows(c, total, message) /\ total \in Totals
  BY Types DEF IInv
<1>2. c.from \in Users /\ c.n \in 0 .. MaxLinks /\ c.page \in Pages /\ c.n <= total[c.from]
  BY <1>1 DEF sendList, Knows, Handler
<1>3. CASE UNCHANGED message
  BY <1>3, ReturnStep DEF sendList
<1>4. CASE message' # message
  <2>1. PICK m \in Messages : message[m] = Unsent /\ message' = [message EXCEPT ![m] = shown]
    BY <1>4 DEF sendList
  <2>2. handler' = [handler EXCEPT ![h] = Idle] /\ UNCHANGED total
    BY DEF sendList, Return
  <2>3. shown \in Shown /\ ShowsAPage(shown, total)
    BY <1>1, <1>2, ShownPage
  <2>4. message[m].chat \notin Users
    BY <2>1, ListAssumption DEF Unsent
  <2> HIDE DEF shown
  <2> QED
    BY <2>1, <2>2, <2>3, <2>4, WriteStep
<1> QED
  BY <1>3, <1>4

LEMMA IInvStep == IInv /\ [Next]_vars => IInv'
<1> SUFFICES ASSUME IInv, [Next]_vars PROVE IInv'
  OBVIOUS
<1>1. CASE UNCHANGED vars
  BY <1>1 DEF vars, IInv, TypeOK
<1>2. CASE Next
  BY <1>2, AddLinkStep, StartStep, PressStep, ReadStep, AnswerStep, EditStep, SendStep DEF Next
<1> QED
  BY <1>1, <1>2

LEMMA Inductive == Spec => []IInv
BY InitIInv, IInvStep, PTL DEF Spec

-----------------------------------------------------------------------------
(* The theorems.                                                           *)

\* Totals, messages and handlers keep their types: handleLinksCallback never edits or
\* sends a page that the list does not have.
THEOREM ListTypeCorrect == Spec => []TypeOK
BY Inductive, PTL DEF IInv

\* Whatever callbacks others send and whichever message they name, handleLinksCallback
\* puts a list only into the chat of its own user.
THEOREM OwnChat == Spec => []ChatShowsOwnLinks
<1>1. IInv => ChatShowsOwnLinks
  BY DEF IInv, ShowsAPage, ChatShowsOwnLinks
<1> QED
  BY <1>1, Inductive, PTL

\* A press of a button that the bot made passes every silent return of
\* handleLinksCallback, however late it is handled: the user, the chat and the page match.
THEOREM PressAnswered == Spec => OwnPressAnswered
<1>1. ASSUME IInv, Next, NEW h \in Handlers, handler[h].own, handler[h].pc = "read"
      PROVE  handler'[h].pc # "idle"
  <2>1. /\ handler \in [Handlers -> Handler] /\ Knows(handler[h], total, message)
    BY <1>1, Types DEF IInv
  <2>2. /\ handler[h].callback /\ Matches(h)
        /\ handler[h].page \in 0 .. linksPageCount(total[handler[h].from]) - 1
    BY <1>1, <2>1 DEF Knows, Matches
  <2>3. CASE handler'[h] = handler[h]
    BY <1>1, <2>3
  <2>4. CASE LinksFails(h)
    <3>1. handler' = [handler EXCEPT ![h].pc = "refuse"]
      BY <2>2, <2>4 DEF LinksFails, Goto
    <3> QED
      BY <2>1, <3>1 DEF Handler
  <2>5. CASE ReadLinks(h)
    <3>1. handler' = [handler EXCEPT ![h].n = total[handler[h].from], ![h].pc = "answer"]
      BY <2>2, <2>5 DEF ReadLinks
    <3> QED
      BY <2>1, <3>1 DEF Handler
  <2>6. LinksFails(h) \/ ReadLinks(h) \/ handler'[h] = handler[h]
    <3>1. CASE \E u \in Users : AddLink(u)
      BY <3>1 DEF AddLink
    <3>2. ASSUME NEW g \in Handlers,
                 \/ \E u \in Users : handleLinks(g, u) \/ handleOtherCallback(g, u)
                 \/ \E m \in Messages : handleLinksCallback(g, m)
          PROVE  handler'[h] = handler[h]
      BY <1>1, <2>1, <3>2 DEF handleLinks, handleOtherCallback, handleLinksCallback
    <3>3. ASSUME NEW g \in Handlers, Reject(g) \/ Refuse(g) \/ answerCallback(g)
          PROVE  handler'[h] = handler[h]
      BY <1>1, <2>1, <2>2, <3>3 DEF Reject, Refuse, answerCallback, Return, Goto
    <3>4. ASSUME NEW g \in Handlers, editList(g) \/ sendList(g)
          PROVE  handler'[h] = handler[h]
      BY <1>1, <2>1, <3>4 DEF editList, sendList, Return, Goto
    <3>5. ASSUME NEW g \in Handlers, g # h, LinksFails(g) \/ ReadLinks(g)
          PROVE  handler'[h] = handler[h]
      BY <2>1, <3>5 DEF LinksFails, ReadLinks, Return, Goto
    <3> QED
      BY <1>1, <3>1, <3>2, <3>3, <3>4, <3>5 DEF Next
  <2> QED
    BY <2>3, <2>4, <2>5, <2>6
<1>2. IInv /\ [Next]_vars =>
          [\A h \in Handlers :
              handler[h].own /\ handler[h].pc = "read" => handler'[h].pc # "idle"]_vars
  BY <1>1
<1> QED
  BY <1>2, Inductive, PTL DEF Spec, OwnPressAnswered

\* Paging skips and repeats no link: formatLinksPage cuts the list at the same places
\* however long it has become, and linksKeyboard has a button for each side that has links.
THEOREM PagesJoin == Spec => []PagingIsWhole
<1>1. ASSUME IInv, NEW m \in Messages, message[m] # Unsent
      PROVE  LET lines   == message[m].lines
                 had     == message[m].had
                 page(b) == formatLinksPage(total[message[m].owner], b)
             IN /\ lines = {} <=> had = 0
                /\ lines \subseteq 1 .. had /\ Cardinality(lines) <= PageSize
                /\ \A b \in message[m].buttons :
                      Follows(page(b), lines) \/ Follows(lines, page(b))
                /\ lines # {} =>
                      /\ 1 \in lines \/ \E b \in message[m].buttons : Follows(lines, page(b))
                      /\ had \in lines \/ \E b \in message[m].buttons : Follows(page(b), lines)
  <2> DEFINE had == message[m].had
             lines == message[m].lines
             pages == linksPageCount(had)
             now == total[message[m].owner]
  <2>1. message[m] \in Shown /\ ShowsAPage(message[m], total) /\ total \in Totals
    BY <1>1, Types DEF IInv
  <2>2. had \in Nat /\ now \in Nat /\ had <= now
    BY <1>1, <2>1, ListAssumption DEF ShowsAPage, Shown, Totals
  <2>3. PICK k \in 0 .. pages - 1 : OnPage(message[m], k)
    BY <1>1, <2>1 DEF ShowsAPage
  <2>4. lines = formatLinksPage(had, k) /\ message[m].buttons = {b \in {k - 1, k + 1} : 0 <= b /\ b < pages}
    BY <2>3 DEF OnPage
  <2>5. pages \in Nat \ {0} /\ (had = 0 => pages = 1)
    BY <2>2, PageCount
  <2> HIDE DEF had, lines, pages, now
  <2>6. /\ lines = {} <=> had = 0
        /\ lines \subseteq 1 .. had /\ Cardinality(lines) <= PageSize
    BY <2>2, <2>3, <2>4, PageLines DEF pages
  <2>7. CASE had = 0
    <3>1. message[m].buttons = {} /\ lines = {}
      BY <2>3, <2>4, <2>5, <2>6, <2>7
    <3> QED
      BY <2>6, <3>1 DEF lines, had
  <2>8. CASE had > 0
    <3>1. /\ k + 1 < pages => Follows(formatLinksPage(now, k + 1), lines)
          /\ k > 0 => Follows(lines, formatLinksPage(now, k - 1))
      BY <2>2, <2>3, <2>4, <2>8, NeighbouringPages DEF pages
    <3>2. /\ k = pages - 1 => had \in lines
          /\ k = 0 => 1 \in lines
      BY <2>2, <2>3, <2>4, <2>8, PageLines DEF pages
    <3>3. /\ \A b \in message[m].buttons :
                \/ b = k - 1 /\ Follows(lines, formatLinksPage(now, b))
                \/ b = k + 1 /\ Follows(formatLinksPage(now, b), lines)
      BY <2>3, <2>4, <2>5, <3>1
    <3>4. k > 0 => k - 1 \in message[m].buttons
      BY <2>3, <2>4, <2>5
    <3>5. k < pages - 1 => k + 1 \in message[m].buttons /\ k + 1 < pages
      BY <2>3, <2>4, <2>5
    <3>6. 1 \in lines \/ \E b \in message[m].buttons : Follows(lines, formatLinksPage(now, b))
      BY <2>3, <2>5, <3>1, <3>2, <3>4
    <3>7. had \in lines \/ \E b \in message[m].buttons : Follows(formatLinksPage(now, b), lines)
      BY <2>3, <2>5, <3>1, <3>2, <3>5
    <3> QED
      BY <2>6, <3>3, <3>6, <3>7 DEF lines, had, now
  <2> QED
    BY <2>2, <2>7, <2>8
<1>2. IInv => PagingIsWhole
  BY <1>1 DEF PagingIsWhole
<1> QED
  BY <1>2, Inductive, PTL
=============================================================================
