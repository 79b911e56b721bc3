------------------------------ MODULE PagedRead ------------------------------
(***************************************************************************)
(* A source is registered and read (data-sources): RestJsonConnector asks  *)
(* an external API page by page, by one of four strategies, until a window *)
(* of records is full.  The API is honest or erratic: it may loop, link    *)
(* elsewhere, answer no list, fail or not answer at all.                   *)
(*                                                                         *)
(* A record is its number in the API's list; one of an erratic API is 0.   *)
(* Where parameters travel, credentials and addresses, how answers are     *)
(* parsed, and the field mapping are left out.                             *)
(***************************************************************************)
EXTENDS Integers, FiniteSets, SequencesExt

CONSTANTS
    Totals,     \* how many records an API may have
    Sizes,      \* page sizes, of APIs and of sources
    Limits,     \* how many records a caller may want
    Offsets,    \* from where
    MaxPages,   \* PAGINATION_LIMITS.maxPages
    Junk,       \* bound of an erratic page
    Foreign,    \* a link to another origin
    Nil         \* no source, no read, no next page

Kinds == {"none", "offset", "page", "cursor", "next-url"}

\* What is asked for: a position, a page index, or a cursor or link. The position a
\* cursor or link stands for is its name; 0 is the endpoint itself.
Ask == Nat

\* An API: how many records it has and hands out at once (0: all of them), and whether
\* its list lies where only an explicit records path finds it.
Api    == [honest: BOOLEAN, total: Nat, size: Nat, hidden: BOOLEAN]
\* A source: its pagination, its page size (1 where there is none), and whether it has
\* a records path.
Config == [kind: Kinds, size: Nat \ {0}, path: BOOLEAN]
Window == [limit: Nat \ {0}, offset: Nat]
Read   == [window: Window, phase: {"asking", "list", "body", "failed"},
           ask: Ask, pages: 0..MaxPages, records: Seq(Nat),
           visited: SUBSET Ask, late: BOOLEAN]

ASSUME PagedReadConstants ==
    /\ Totals \subseteq Nat /\ Offsets \subseteq Nat
    /\ Sizes \subseteq Nat \ {0} /\ Limits \subseteq Nat \ {0}
    /\ MaxPages \in Nat \ {0} /\ Junk \in Nat
    /\ Foreign \notin Nat /\ Nil \notin Nat \cup {Foreign}

VARIABLES
    api,      \* the external API; never changes
    wanted,   \* the config an administrator submitted, or Nil
    source,   \* the stored config, or Nil
    read      \* the read under way or finished last, or Nil

readVars == <<api, wanted, source, read>>

Configs == {config \in [kind: Kinds, size: Sizes \cup {1}, path: BOOLEAN] :
              config.kind \in {"none", "next-url"} => config.size = 1}
Windows == [limit: Limits, offset: Offsets]

\* A source that is there may have any config that its connector parses.
ReadInit ==
    /\ api \in [honest: BOOLEAN, total: Totals, size: Sizes \cup {0}, hidden: BOOLEAN]
    /\ api.honest \/ (api.total = 0 /\ api.size = 0 /\ ~api.hidden)
    /\ wanted = Nil
    /\ source \in Configs \cup {Nil}
    /\ read = Nil

-----------------------------------------------------------------------------
(* The external API.                                                       *)

Least(a, b) == IF a < b THEN a ELSE b

\* It hands out no more than it is asked for, nor than it does at once.
PageLength(config) ==
    IF api.size = 0 THEN api.total
    ELSE IF config.kind \in {"none", "next-url"} THEN api.size
    ELSE Least(config.size, api.size)

\* The position of the page asked for; one that hands out all always begins at 0.
Position == IF api.size = 0 THEN 0
            ELSE IF source.kind = "page" THEN read.ask * PageLength(source)
            ELSE read.ask

HonestPage == LET last == Least(Position + PageLength(source), api.total)
              IN  [i \in 1..(last - Position) |-> Position + i]

\* At the end there is no next page, or an empty one.
HonestNext == LET last == Position + Len(HonestPage)
              IN  IF last < api.total THEN {last} ELSE {Nil, api.total}

\* The pages and the next cursors or links an answer may have.
PagesOf == IF api.honest THEN {HonestPage} ELSE {[i \in 1..n |-> 0] : n \in 0..Junk}
NextsOf == IF api.honest THEN HonestNext
           ELSE 0..Junk \cup {Nil}
                        \cup (IF source.kind = "next-url" THEN {Foreign} ELSE {})

-----------------------------------------------------------------------------
(* CreateDataSource                                                        *)

\* checkConfig stores the address and the mode of authentication, and nothing else.
DraftConfig(config) == [kind |-> "none", size |-> 1, path |-> FALSE]

CreateSource ==
    /\ source = Nil
    /\ \E config \in Configs :
        /\ wanted' = config
        /\ source' = DraftConfig(config)
    /\ UNCHANGED <<api, read>>

-----------------------------------------------------------------------------
(* Reading a window                                                        *)

\* firstPageRequest: offset and page reads jump, the others walk from the beginning.
FirstAsk(config, offset) == CASE config.kind = "offset" -> offset
                              [] config.kind = "page"   -> offset \div config.size
                              [] OTHER                  -> 0

Skip(config, offset) == CASE config.kind = "offset" -> 0
                          [] config.kind = "page"   -> offset % config.size
                          [] OTHER                  -> offset

Asking == read # Nil /\ read.phase = "asking"

BeginRead(window) ==
    /\ source # Nil
    /\ ~Asking
    /\ read' = [window |-> window, phase |-> "asking",
                ask |-> FirstAsk(source, window.offset), pages |-> 0,
                records |-> <<>>, visited |-> {}, late |-> FALSE]
    /\ UNCHANGED <<api, wanted, source>>

\* Mutant: the window ends with its last record.
WantedNoMore(r) == Skip(source, r.window.offset) + r.window.limit
\* One record more shows that there are more.
Wanted(r) == Skip(source, r.window.offset) + r.window.limit + 1

\* isReadComplete.
IsReadComplete(r) ==
    \/ Len(r.records) >= Wanted(r)
    \/ r.pages >= MaxPages
    \/ r.late

Follows(config) == config.kind \in {"cursor", "next-url"}

\* An empty page, a cursor or link that was asked for, or a page shorter than the page
\* size ends the read.
IsLastPage(r, page, next) ==
    \/ page = <<>>
    \/ IF Follows(source) THEN next \in r.visited ELSE Len(page) < source.size

\* nextPageRequest; a cursor or link may also be missing.
NextAsk(r, page, next) ==
    IF IsLastPage(r, page, next) THEN Nil
    ELSE CASE Follows(source)        -> next
           [] source.kind = "offset" -> r.window.offset + Len(r.records)
           [] OTHER                  -> (r.window.offset \div source.size) + r.pages

\* rememberVisited.
Remember(r, ask) == IF Follows(source) THEN r.visited \cup {ask} ELSE r.visited

End(r, phase) == read' = [r EXCEPT !.phase = phase]

\* The loop of readPaginated, from one answer to the next request. A link that leaves
\* the origin is refused before it is asked for (buildRequest).
AddPage(page, next) ==
    LET r   == [read EXCEPT !.pages = @ + 1, !.records = @ \o page]
        ask == IF IsReadComplete(r) THEN Nil ELSE NextAsk(r, page, next)
    IN  CASE ask = Nil    -> End(r, "list")
          [] ask = Foreign -> End(r, "failed")
          [] OTHER         -> read' = [r EXCEPT !.ask = ask, !.visited = Remember(r, ask)]

\* locateRecords: a list behind an unknown name is found only by its path.
IsLocated == source.path \/ ~api.hidden

\* readPlain takes its one answer for the whole list.
AnswerList ==
    /\ Asking
    /\ IsLocated
    /\ \E page \in PagesOf, next \in NextsOf :
        IF source.kind = "none"
        THEN End([read EXCEPT !.pages = 1, !.records = page], "list")
        ELSE AddPage(page, next)
    /\ UNCHANGED <<api, wanted, source>>

\* An answer with no list in it: a plain read without a path hands it on, a later page
\* ends the read with what there is.
AnswerNoList ==
    /\ Asking
    /\ ~api.honest \/ ~IsLocated
    /\ End([read EXCEPT !.pages = @ + 1],
           CASE source.kind = "none" /\ ~source.path    -> "body"
             [] source.kind # "none" /\ read.pages > 0 -> "list"
             [] OTHER                                  -> "failed")
    /\ UNCHANGED <<api, wanted, source>>

\* The host does not resolve, the request fails, its status or its body is refused.
\* A failing page fails the whole read.
RefuseAnswer ==
    /\ Asking
    /\ End(read, "failed")
    /\ UNCHANGED <<api, wanted, source>>

\* Mutant: no signal cancels the request.
IsCancelledNever(n) == FALSE
\* AbortSignal.timeout covers headers and body of each request, here of the one after
\* n pages.
IsCancelled(n) == Asking /\ read.pages = n

TimeOut(n) ==
    /\ IsCancelled(n)
    /\ End(read, "failed")
    /\ UNCHANGED <<api, wanted, source>>

\* The time one read may spend on all its pages is over.
SpendBudget ==
    /\ Asking
    /\ ~read.late
    /\ read' = [read EXCEPT !.late = TRUE]
    /\ UNCHANGED <<api, wanted, source>>

ReadNext ==
    \/ CreateSource
    \/ \E window \in Windows : BeginRead(window)
    \/ AnswerList \/ AnswerNoList \/ RefuseAnswer
    \/ \E n \in 0..MaxPages : TimeOut(n)
    \/ SpendBudget

ReadSpec == ReadInit /\ [][ReadNext]_readVars

\* An API need not answer, but the timer of a request that is not answered goes off.
FairReadSpec == ReadSpec /\ \A n \in 0..MaxPages : WF_readVars(TimeOut(n))

-----------------------------------------------------------------------------
(* What a read answers, and what it should.                                *)

\* windowOf, and the slice of plainAnswer.
Answered == SubSeq(read.records, Skip(source, read.window.offset) + 1,
                   Least(Wanted(read), Len(read.records)))

\* The records of the window, and one more when there are more.
Due == LET last == Least(read.window.offset + read.window.limit + 1, api.total)
       IN  [i \in 1..(last - read.window.offset) |-> read.window.offset + i]

\* The source is configured as the API works: its list is found, and a page size is one
\* that the API honours.
Suits(config) ==
    /\ api.honest
    /\ config.path \/ ~api.hidden
    /\ IF config.kind = "none" THEN api.size = 0 ELSE api.size # 0
    /\ config.kind \in {"offset", "page"} => config.size <= api.size

\* So many pages hold the window.
IsWithinPages(config) ==
    \/ config.kind = "none"
    \/ MaxPages * PageLength(config) > Skip(config, read.window.offset) + read.window.limit

IsRead == read # Nil /\ read.phase \in {"list", "body"}

\* Every variable has its type.
ReadTypeOK ==
    /\ api \in Api
    /\ wanted \in Config \cup {Nil}
    /\ source \in Config \cup {Nil}
    /\ read = Nil \/ read \in Read

\* A source that suits its API is read exactly: the records of the window, in order, none
\* twice, and one more exactly when there are more, which is how a caller learns that the
\* list was cut (mapRecords). Only a read that spent its pages or its time may end early.
WindowIsExact ==
    IsRead /\ Suits(source) =>
        \/ Answered = Due
        \/ /\ read.late \/ ~IsWithinPages(source)
           /\ IsPrefix(Answered, Due)

\* An API that answers with a cursor or link it answered with before gets no further
\* request: each page after the first was asked for under a name of its own.
NothingAskedTwice ==
    read # Nil /\ Follows(source) => read.pages <= Cardinality(read.visited) + 1

\* Reads answer what was asked for, from an honest API and an erratic one (readPaginated).
WindowRead == ReadTypeOK /\ WindowIsExact /\ NothingAskedTwice

\* Every read ends, also of an API that loops, or that stops answering (REQUEST_TIMEOUT_MS).
ReadsEnd == Asking ~> ~Asking

\* What rest-json-connector.ts says of a source with pagination, for one that was set up
\* with a config that suits its API: it is read page by page until the window is filled.
ConfiguredIsRead ==
    read # Nil /\ read.phase = "list" /\ wanted # Nil =>
        (wanted.kind # "none" /\ Suits(wanted) /\ IsWithinPages(wanted) /\ ~read.late
            => Answered = Due)
=============================================================================
