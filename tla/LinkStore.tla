------------------------------ MODULE LinkStore ------------------------------
(***************************************************************************)
(* The SQLite store of short links (internal/shortener/store.go): the      *)
(* table `links`, its two UNIQUE constraints and the statements the        *)
(* service runs against it.  One statement is one atomic step of the       *)
(* database; database/sql's pool lets statements of different goroutines   *)
(* interleave freely between them.  A statement can also fail, and every   *)
(* statement fails once the handle is closed: that choice is made by the   *)
(* callers (Shortener, TitleFetches), which decide what an error means.    *)
(*                                                                         *)
(* The id column is the row's position: it is AUTOINCREMENT and no         *)
(* statement deletes a row, so ORDER BY id is the order of insertion.      *)
(* created_at is left out: nothing reads it back to decide anything.       *)
(***************************************************************************)
EXTENDS Integers, Sequences

CONSTANTS
    Users,      \* Telegram user ids
    URLs,       \* the canonical URLs ValidateURL accepts
    Codes,      \* the short codes GenerateCode can draw
    PageTitles, \* the non-empty titles a page can have
    NoTitle     \* the empty title '' of a row whose page was not read yet

\* A stored title is the page's title, or what TitleFor makes of the URL: it is
\* modelled as the pair it was computed from.
TitleFor(pageTitle, url) == [page |-> url, text |-> pageTitle]

StoredTitle == [page : URLs, text : PageTitles]

Link == [code  : Codes,
         user  : Users,
         url   : URLs,
         title : StoredTitle \cup {NoTitle}]

ASSUME StoreAssumption == NoTitle \notin StoredTitle

VARIABLES
    links,      \* the rows of the table, in order of id: it survives a crash
    storeOpen   \* TRUE while this process holds an open database handle

storeVars == <<links, storeOpen>>

StoreTypeOK ==
    /\ links \in Seq(Link)
    /\ storeOpen \in BOOLEAN

-----------------------------------------------------------------------------
(* Reads.  FindUserURL and Resolve return the set of positions of the rows *)
(* that match; the empty set is ErrNotFound.                               *)

\* Mutated form: the user is left out of the WHERE clause.
FindAnyURL(user, url) == {i \in DOMAIN links : links[i].url = url}

FindUserURL(user, url) ==
    {i \in DOMAIN links : links[i].user = user /\ links[i].url = url}

Resolve(code) == {i \in DOMAIN links : links[i].code = code}

CodeExists(code) == \E i \in DOMAIN links : links[i].code = code

\* SELECT ... WHERE user_id = ? ORDER BY id ASC
ByUser(user) == SelectSeq(links, LAMBDA link : link.user = user)

-----------------------------------------------------------------------------
(* Writes.                                                                 *)

\* UNIQUE (code) and UNIQUE (user_id, url)
UniqueViolation(link) ==
    \E i \in DOMAIN links :
        \/ links[i].code = link.code
        \/ links[i].user = link.user /\ links[i].url = link.url

\* INSERT INTO links: the row is appended, or refused by a constraint.
Insert(link) ==
    /\ storeOpen
    /\ ~UniqueViolation(link)
    /\ links' = Append(links, link)
    /\ UNCHANGED storeOpen

\* Mutated form: the WHERE clause loses "code = ?".
SetEveryEmptyTitle(code, title) ==
    /\ storeOpen
    /\ links' = [i \in DOMAIN links |->
                    IF links[i].title = NoTitle
                    THEN [links[i] EXCEPT !.title = title]
                    ELSE links[i]]
    /\ UNCHANGED storeOpen

\* UPDATE links SET title = ? WHERE code = ? AND title = ''
SetTitleIfEmpty(code, title) ==
    /\ storeOpen
    /\ links' = [i \in DOMAIN links |->
                    IF links[i].code = code /\ links[i].title = NoTitle
                    THEN [links[i] EXCEPT !.title = title]
                    ELSE links[i]]
    /\ UNCHANGED storeOpen

Close ==
    /\ storeOpen
    /\ storeOpen' = FALSE
    /\ UNCHANGED links

=============================================================================
