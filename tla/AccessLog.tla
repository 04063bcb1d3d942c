----------------------------- MODULE AccessLog -----------------------------
(***************************************************************************)
(* The access-log collector, src/internal/collectors/nginx/accesslog.go:   *)
(* in every tick the lines the reader hands over are parsed and counted,   *)
(* their times are sampled, and then counts, times and ranked rows are     *)
(* offered one by one to the client's queue, which other collectors fill   *)
(* and the client empties meanwhile.                                       *)
(*                                                                         *)
(* The first line of a tick may be the end of one: nginx was in the middle *)
(* of it when the log was opened, or the reader skipped ahead (LogTail).   *)
(* A line is a sequence of tokens, blanks and quotation marks among them.  *)
(***************************************************************************)
EXTENDS TopLists

CONSTANTS
    Lines,          \* what nginx writes: [text, class], class 0 for no request
    Times,          \* the tokens that are decimal numbers, not negative
    maxSamples,     \* time_samples_per_tick
    maxRankedRowsPerTick,
    topLists,       \* the ranked lists are switched on
    siteHost,
    Capacity,       \* what the client's queue holds
    MaxLines        \* bound: lines in one tick

ASSUME AccessLogAssumption ==
    /\ maxSamples \in Nat \ {0} /\ maxRankedRowsPerTick \in Nat
    /\ Capacity \in Nat /\ MaxLines \in Nat /\ topLists \in BOOLEAN
    /\ \A line \in Lines : line.text \in Seq(STRING) /\ line.class \in 0..5

VARIABLES
    phase,      \* "idle", "parse" or "offer"
    lines,      \* how many lines of this tick were parsed
    classCounts,
    requestTimes, upstreamTimes,
    ranked,     \* entries kept for the ranked lists
    rows,       \* the events they will cost
    left,       \* what is still to be offered, by kind
    queue,      \* events in the client's queue
    mine,       \* those of them that are rows of this tick
    real,       \* history: the lines of each class that were handed over
    broken,     \* history: one of them had lost its beginning
    crowded     \* history: a count or a time was dropped, a row of this tick
                \* being in the queue

tick == <<lines, classCounts, requestTimes, upstreamTimes, ranked, rows, real, broken>>
vars == <<phase, tick, left, queue, mine, crowded>>
-----------------------------------------------------------------------------
(* Text. *)
Quote == "quote"
Blank == " "

(* The n-th field of s, between blanks. *)
IsField(s, i, j) ==
    /\ \A k \in i..j : s[k] # Blank
    /\ i = 1 \/ s[i - 1] = Blank
    /\ j = Len(s) \/ s[j + 1] = Blank

Spans(s) == {p \in (1..Len(s)) \X (1..Len(s)) : p[1] <= p[2] /\ IsField(s, p[1], p[2])}

Fields(s) ==
    LET spans == Spans(s)
        Nth(n) == CHOOSE p \in spans : Cardinality({q \in spans : q[1] < p[1]}) = n - 1
    IN  [n \in 1..Cardinality(spans) |-> SubSeq(s, Nth(n)[1], Nth(n)[2])]

Field(s, n) == IF n \in DOMAIN Fields(s) THEN Fields(s)[n] ELSE <<>>

isURL(s) == Starts(s, <<"http", "://">>) \/ Starts(s, <<"https", "://">>) \/ Starts(s, <<"//">>)

quotedReferrer(rest) ==
    LET open == First(rest, {Quote})
        after == From(rest, open + 1)
        shut == First(after, {Quote})
        value == Before(after, shut)
    IN  IF open > 0 /\ shut > 0 /\ isURL(value) THEN value ELSE <<>>

(* A field that names its value, which may stand in quotes. *)
IsNamed(field, names) ==
    /\ field # <<>> /\ field[1] \in names
    /\ \E t \in Times \cup DOMAIN Number :
        Tail(field) \in {<<t>>, <<Quote, t, Quote>>}

hasNamed(rest, names) == \E n \in DOMAIN Fields(rest) : IsNamed(Fields(rest)[n], names)

(* Bare decimals behind the last quotation mark. *)
Bare(rest) ==
    LET fields == Fields(From(rest, Final(rest, {Quote}) + 1))
    IN  Cardinality({n \in DOMAIN fields : \E t \in Times : fields[n] = <<t>>})

NoEntry == [ok |-> FALSE]

isStatus(field) ==
    \E t \in DOMAIN Number : field = <<t>> /\ Number[t] \in 100..599

Entry(before, request, rest, status) ==
    LET named == hasNamed(rest, {"rt=", "request_time="})
        upstream == hasNamed(rest, {"urt=", "upstream_response_time=", "uht="})
    IN  [ok |-> TRUE,
         status |-> status,
         statusClass |-> Number[status] \div 100,
         remoteAddr |-> Field(before, 1),
         target |-> Field(request, 2),
         referrer |-> quotedReferrer(rest),
         hasRequestTime |-> named \/ Bare(rest) > 0,
         hasUpstreamTime |-> upstream \/ (~named /\ Bare(rest) > 1)]

(* Mutant: the status is the first number that could be one. *)
parseFirstNumber(line) ==
    LET field == SelectInSeq(Fields(line), isStatus)
    IN  IF field = 0 THEN NoEntry
        ELSE Entry(line, line, line, Field(line, field)[1])

parseAccessLogLine(line) ==
    LET start == First(line, {Quote})
        inside == From(line, start + 1)
        end == First(inside, {Quote})
        rest == From(inside, end + 1)
    IN  IF start = 0 \/ end = 0 \/ ~isStatus(Field(rest, 1)) THEN NoEntry
        ELSE Entry(Before(line, start), Before(inside, end), rest, Field(rest, 1)[1])

(* What stands between quotation marks i and j is followed by a status. *)
HasStatus(s, i, j) ==
    /\ i < j /\ s[i] = Quote /\ s[j] = Quote /\ \A k \in (i + 1)..(j - 1) : s[k] # Quote
    /\ isStatus(Field(From(s, j + 1), 1))

(* A request is followed by its status, and nothing else that is quoted    *)
(* (referrer, user agent, named time) by a field that could be one.        *)
ASSUME LinesAssumption ==
    \A line \in Lines :
        LET s == line.text
        IN  /\ line.class # 0 => \E i, j \in 1..Len(s) : HasStatus(s, i, j)
            /\ \A i, j \in 1..Len(s) : HasStatus(s, i, j) =>
                /\ \A k \in 1..(i - 1) : s[k] # Quote
                /\ line.class = Number[Field(From(s, j + 1), 1)[1]] \div 100
-----------------------------------------------------------------------------
(* The reservoir.  Which sample it holds is a matter of chance: `ways' has *)
(* every sample it may hold, and how many of the equally likely sequences  *)
(* of random numbers lead to it.  The values are told apart by their line. *)
newReservoir == [offered |-> 0, values |-> {}, ways |-> [t \in {<<>>} |-> 1]]

(* What becomes of a sample when Intn returns r. *)
Replaced(sample, r, v) ==
    IF r < maxSamples THEN [sample EXCEPT ![r + 1] = v] ELSE sample

Spread(ways, n, v) ==
    LET next == {Replaced(s, r, v) : s \in DOMAIN ways, r \in 0..(n - 1)}
    IN  [t \in next |->
            SumFunction([s \in DOMAIN ways |->
                ways[s] * Cardinality({r \in 0..(n - 1) : Replaced(s, r, v) = t})])]

Append1(ways, v) ==
    [t \in {Append(s, v) : s \in DOMAIN ways} |-> ways[Front(t)]]

Full(s) == \E t \in DOMAIN s.ways : Len(t) >= maxSamples

(* Mutant: the lines of the tick are counted, not the values offered. *)
offerOfLines(s, v) ==
    [offered |-> v, values |-> s.values \cup {v},
     ways |-> IF Full(s) THEN Spread(s.ways, v, v) ELSE Append1(s.ways, v)]

(* Mutant: one value too many. *)
offerOneMore(s, v) ==
    [offered |-> s.offered + 1, values |-> s.values \cup {v},
     ways |-> IF s.offered > maxSamples THEN Spread(s.ways, s.offered + 1, v)
              ELSE Append1(s.ways, v)]

offer(s, v) ==
    [offered |-> s.offered + 1, values |-> s.values \cup {v},
     ways |-> IF Full(s) THEN Spread(s.ways, s.offered + 1, v)
              ELSE Append1(s.ways, v)]

(* How many of the equally likely choices keep v. *)
Weight(s, v) == SumFunctionOnSet(s.ways, {t \in DOMAIN s.ways : v \in ToSet(t)})

Sampled(s) == Min({s.offered, maxSamples})
-----------------------------------------------------------------------------
Classes == 1..5
NoCounts == [k \in Classes |-> 0]
Nothing == [counts |-> 0, times |-> 0, rows |-> 0]

TypeOK ==
    /\ phase \in {"idle", "parse", "offer"}
    /\ lines \in 0..MaxLines
    /\ classCounts \in [Classes -> 0..MaxLines] /\ real \in [Classes -> 0..MaxLines]
    /\ \A s \in {requestTimes, upstreamTimes} :
        \A t \in DOMAIN s.ways : Len(t) = Sampled(s)
    /\ ranked \in 0..maxRankedRowsPerTick /\ rows \in 0..(3 * ranked)
    /\ left \in [{"counts", "times", "rows"} -> Nat]
    /\ queue \in 0..Capacity /\ mine \in 0..queue
    /\ broken \in BOOLEAN /\ crowded \in BOOLEAN

Init ==
    /\ phase = "idle" /\ lines = 0
    /\ classCounts = NoCounts /\ real = NoCounts
    /\ requestTimes = newReservoir /\ upstreamTimes = newReservoir
    /\ ranked = 0 /\ rows = 0 /\ left = Nothing
    /\ queue = 0 /\ mine = 0
    /\ broken = FALSE /\ crowded = FALSE

Begin ==
    /\ phase = "idle"
    /\ phase' = "parse"
    /\ mine' = 0
    /\ UNCHANGED <<tick, left, queue, crowded>>

(* What may be handed over, to the mere end of a line, and what is found   *)
(* in it.                                                                  *)
Texts == UNION {{From(line.text, i) : i \in 1..(Len(line.text) + 1)} : line \in Lines}
Entries == [text \in Texts |-> parseAccessLogLine(text)]
Costs == [text \in Texts |->
             IF Entries[text].ok THEN recordRankedRows(Entries[text], siteHost) ELSE 0]

(* The line of this tick with that text is dealt with. *)
Take(text) ==
    LET entry == Entries[text]
        kept == topLists /\ ranked < maxRankedRowsPerTick
    IN  IF ~entry.ok
        THEN UNCHANGED <<classCounts, requestTimes, upstreamTimes, ranked, rows>>
        ELSE /\ classCounts' = [classCounts EXCEPT ![entry.statusClass] = @ + 1]
             /\ ranked' = IF kept THEN ranked + 1 ELSE ranked
             /\ rows' = IF kept THEN rows + Costs[text] ELSE rows
             /\ requestTimes' = IF entry.hasRequestTime
                                THEN offer(requestTimes, lines + 1) ELSE requestTimes
             /\ upstreamTimes' = IF entry.hasUpstreamTime
                                 THEN offer(upstreamTimes, lines + 1) ELSE upstreamTimes

Line ==
    /\ phase = "parse" /\ lines < MaxLines
    /\ lines' = lines + 1
    /\ \E line \in Lines : \E from \in 1..(IF lines = 0 THEN Len(line.text) + 1 ELSE 1) :
        /\ broken' = (broken \/ from > 1)
        /\ Take(From(line.text, from))
        /\ real' = IF line.class = 0 THEN real ELSE [real EXCEPT ![line.class] = @ + 1]
    /\ UNCHANGED <<phase, left, queue, mine, crowded>>

(* The last line was parsed. *)
Parsed ==
    /\ phase = "parse"
    /\ phase' = "offer"
    /\ left' = [counts |-> Cardinality({k \in Classes : classCounts[k] > 0}),
                times |-> Sampled(requestTimes) + Sampled(upstreamTimes),
                rows |-> rows]
    /\ UNCHANGED <<tick, queue, mine, crowded>>

(* Mutant: the rows are offered before the counts. *)
RowsAtOnce(kind) == kind # "rows" => left.rows = 0

(* Counts first, then times, ranked rows last. *)
ItsTurn(kind) ==
    /\ kind # "counts" => left.counts = 0
    /\ kind = "rows" => left.times = 0

(* An event is offered; a full queue drops it. *)
Offer(kind) ==
    /\ phase = "offer" /\ left[kind] > 0 /\ ItsTurn(kind)
    /\ left' = [left EXCEPT ![kind] = @ - 1]
    /\ queue' = Min({queue + 1, Capacity})
    /\ mine' = IF kind = "rows" /\ queue < Capacity THEN mine + 1 ELSE mine
    /\ crowded' = (crowded \/ (kind # "rows" /\ queue = Capacity /\ mine > 0))
    /\ UNCHANGED <<phase, tick>>

Return ==
    /\ phase = "offer" /\ left = Nothing
    /\ phase' = "idle"
    /\ lines' = 0 /\ classCounts' = NoCounts /\ real' = NoCounts
    /\ requestTimes' = newReservoir /\ upstreamTimes' = newReservoir
    /\ ranked' = 0 /\ rows' = 0 /\ broken' = FALSE
    /\ UNCHANGED <<left, queue, mine, crowded>>

(* Other collectors offer their events to the same queue. *)
Other ==
    /\ queue < Capacity
    /\ queue' = queue + 1
    /\ UNCHANGED <<phase, tick, left, mine, crowded>>

(* The client sends what is in its queue. *)
Send ==
    /\ queue > 0
    /\ queue' = 0 /\ mine' = 0
    /\ UNCHANGED <<phase, tick, left, crowded>>

Next ==
    \/ Begin \/ Line \/ Parsed \/ Return \/ Other \/ Send
    \/ \E kind \in DOMAIN left : Offer(kind)

Spec == Init /\ [][Next]_vars
-----------------------------------------------------------------------------
(* Every request is counted in its class once, and nothing else is: the    *)
(* end of a line whose beginning was lost counts as its line or not at all,*)
(* never under a number that is not its status.                            *)
CountsTrue ==
    \A k \in Classes :
        /\ classCounts[k] <= real[k]
        /\ ~broken => classCounts[k] = real[k]

(* Every value offered to a reservoir is as likely to be reported as any   *)
(* other, whatever the lines between them offered.                         *)
Uniform ==
    \A s \in {requestTimes, upstreamTimes} :
        \A v, w \in s.values : Weight(s, v) = Weight(s, w)

(* A count or a time is never dropped for want of a place that a ranked    *)
(* row of the same tick has taken.                                         *)
BaseFirst == ~crowded

(* However a site's address is written, in a referrer or as site_host, it  *)
(* has one row, named by the host.                                         *)
OneSiteOneRow == phase = "parse" => OtherSites = {}

(* However a page is asked for, and whichever record it shows, it has one  *)
(* row, and a different page another one, as long as the row has room.     *)
OnePageOneRow == phase = "parse" => OtherPages = {}

(* A file that a page loads draws neither a page row nor a referral,       *)
(* however it is asked for, and everything else draws both.                *)
FurnitureStaysOut == phase = "parse" => Misplaced = {}
=============================================================================
