------------------------------ MODULE TopLists ------------------------------
(***************************************************************************)
(* The ranked lists, src/internal/collectors/nginx/toplists.go: how a      *)
(* request becomes a row of the pages, the failing pages and the referring *)
(* sites.  Pure functions on text.                                         *)
(*                                                                         *)
(* Text is a sequence of tokens: a delimiter (a slash, a colon, a scheme's *)
(* "://") or a word between delimiters.  Lengths are counted in tokens, so *)
(* a token stands for what clampItem never cuts in two.                    *)
(***************************************************************************)
EXTENDS Integers, Sequences, SequencesExt, FiniteSetsExt

CONSTANTS
    Number,         \* the value of the tokens that are numbers
    Lower,          \* the tokens with capitals, and what ToLower makes of them
    Identifiers,    \* numbers, UUIDs, long runs of hex
    MaxItem,        \* maxItemBytes
    Hosts,          \* hosts and path segments to spell referrers and targets
    Segments        \* with, in the properties below
-----------------------------------------------------------------------------
(* Text. *)
From(s, i) == SubSeq(s, i, Len(s))
First(s, T) == SelectInSeq(s, LAMBDA t : t \in T)
Final(s, T) == SelectLastInSeq(s, LAMBDA t : t \in T)
Before(s, i) == IF i = 0 THEN s ELSE SubSeq(s, 1, i - 1)
Starts(s, p) == IsPrefix(p, s)
TrimPrefix(s, t) == IF Starts(s, <<t>>) THEN Tail(s) ELSE s
TrimSuffix(s, t) == IF s # <<>> /\ Last(s) = t THEN Front(s) ELSE s
ToLower(s) == [i \in DOMAIN s |-> IF s[i] \in DOMAIN Lower THEN Lower[s[i]] ELSE s[i]]

Without(s, T) == \A k \in 1..Len(s) : s[k] \notin T

(* An item over the ceiling is cut, one with a control byte dropped. *)
clampItem(item) ==
    IF First(item, {"control"}) > 0 THEN <<>>
    ELSE SubSeq(item, 1, Min({Len(item), MaxItem}))
-----------------------------------------------------------------------------
(* A segment that names one record is an identifier and nothing else. *)
isIdentifierSegment(s, i) ==
    /\ s[i] \in Identifiers
    /\ i = 1 \/ s[i - 1] = "/"
    /\ i = Len(s) \/ s[i + 1] = "/"

(* The path of a request target, which may be a whole URL. *)
PathOf(target) ==
    LET plain == Before(target, First(target, {"?", "#"}))
        scheme == First(plain, {"://"})
        host == From(plain, scheme + 1)
        slash == First(host, {"/"})
    IN  IF Starts(plain, <<"/">>) THEN plain
        ELSE IF scheme = 0 \/ slash = 0 THEN <<>>
        ELSE From(host, slash)

(* Mutant: the last slash is dropped before the query is. *)
normalizeSlashFirst(target) ==
    LET path == PathOf(IF Len(target) > 1 THEN TrimSuffix(target, "/") ELSE target)
        row == [i \in DOMAIN path |->
                   IF isIdentifierSegment(path, i) THEN ":id" ELSE path[i]]
    IN  clampItem(row)

normalizePath(target) ==
    LET path == PathOf(target)
        row == [i \in DOMAIN path |->
                   IF isIdentifierSegment(path, i) THEN ":id" ELSE path[i]]
    IN  clampItem(IF Len(row) > 1 THEN TrimSuffix(row, "/") ELSE row)

assetExtensions == {"js", "css"}
assetPrefixes == {"_next", "static"}

(* Mutant: a name is taken for its own extension, dot or no dot. *)
isAssetName(path) ==
    \/ \E p \in assetPrefixes : Starts(path, <<"/", p, "/">>)
    \/ \E e \in assetExtensions : ToLower(From(path, Len(path))) = <<e>>

isAssetPath(path) ==
    \/ \E p \in assetPrefixes : Starts(path, <<"/", p, "/">>)
    \/ LET name == From(path, Final(path, {"/"}) + 1)
           dot == Final(name, {"."})
       IN  dot > 0 /\ \E e \in assetExtensions : ToLower(From(name, dot + 1)) = <<e>>
-----------------------------------------------------------------------------
(* The authority of a URL: what follows the scheme, up to the path. *)
Authority(raw) ==
    LET scheme == First(raw, {"://"})
        rest == IF scheme > 0 THEN From(raw, scheme + 1) ELSE TrimPrefix(raw, "//")
    IN  Before(rest, First(rest, {"/", "?", "#"}))

(* Mutant: the port is looked for in a bracketed address as well. *)
WithoutLastColon(host) == Before(host, Final(host, {":"}))

(* The colons of a bracketed address are part of it. *)
WithoutPort(host) ==
    LET shut == First(host, {"]"})
    IN  IF Starts(host, <<"[">>)
        THEN IF shut > 0 THEN SubSeq(host, 1, shut) ELSE host
        ELSE Before(host, Final(host, {":"}))

isHostStart(t) == t \notin {"-", "_", ".", ":", "]", "control"}

referrerSite(raw) ==
    LET authority == Authority(raw)
        host == From(authority, Final(authority, {"@"}) + 1)
        named == ToLower(TrimSuffix(WithoutPort(host), "."))
        site == TrimPrefix(named, "www.")
    IN  IF site # <<>> /\ isHostStart(site[1]) THEN clampItem(site) ELSE <<>>
-----------------------------------------------------------------------------
routineStatuses == {401, 403, 499}

failingRow(status, path, asset) ==
    IF \/ Number[status] < 400 \/ path = <<>>
       \/ Number[status] \in routineStatuses
       \/ Number[status] = 404 /\ ~asset
    THEN <<>> ELSE clampItem(<<status, " ">> \o path)

rowsFor(entry, siteHost) ==
    LET path == normalizePath(entry.target)
        asset == path # <<>> /\ isAssetPath(path)
        site == referrerSite(entry.referrer)
        page == IF asset THEN <<>> ELSE path
    IN  [page |-> page,
         failing |-> failingRow(entry.status, path, asset),
         referrer |-> IF page = <<>> \/ site = siteHost THEN <<>> ELSE site]

Drawn(row) == {list \in DOMAIN row : row[list] # <<>>}

(* What one request costs: a row in each list it belongs in, and none when *)
(* the log does not tell visitors apart.                                   *)
recordRankedRows(entry, siteHost) ==
    IF entry.remoteAddr = <<>> THEN 0 ELSE Cardinality(Drawn(rowsFor(entry, siteHost)))
-----------------------------------------------------------------------------
(* What the instances of tokens, hosts and segments have in common.  No     *)
(* letter becomes a dot, or a dot a letter.  A host is a name or an address *)
(* in brackets; a name that begins with "www." has the row of the name      *)
(* without it.                                                              *)
ASSUME ItemAssumption == MaxItem \in Nat /\ Number["200"] = 200

ASSUME LowerAssumption ==
    /\ Lower \in [DOMAIN Lower -> STRING \ {".", "control"}]
    /\ {"www.", "[", "."} \cap DOMAIN Lower = {}
    /\ "WWW." \in DOMAIN Lower /\ Lower["WWW."] = "www."

ASSUME HostsAssumption ==
    \A h \in Hosts :
        /\ h \in Seq(STRING) /\ h # <<>>
        /\ Without(h, {"/", "//", "://", "?", "#", "@", "control"})
        /\ \/ /\ h[1] = "[" /\ h[Len(h)] = "]"
              /\ \A k \in 1..(Len(h) - 1) : h[k] # "]"
           \/ /\ h[1] # "[" /\ Without(h, {":"}) /\ h[Len(h)] # "."
              /\ ToLower(h)[1] # "www." /\ isHostStart(ToLower(h)[1])

(* How a referrer on host h may be written.  A URL inside the query is left *)
(* out where there is no scheme: its own would be taken for the referrer's. *)
URL == <<"?", "u", "https", "://", "other.org", "/">>

Spellings(h) ==
    LET Bracketed == h[1] = "["
        Www == IF Bracketed THEN {<<>>} ELSE {<<>>, <<"www.">>, <<"WWW.">>}
        Dot == IF Bracketed THEN {<<>>} ELSE {<<>>, <<".">>}
        Begin == {<<>>, <<"user", ":", "pass", "@">>}
        Port == {<<>>, <<":", "8443">>}
        Site == {u \o w \o h \o d \o n : u \in Begin, w \in Www, d \in Dot, n \in Port}
    IN  {a \o s \o p : a \in {<<"http", "://">>, <<"https", "://">>}, s \in Site,
                       p \in {<<>>, <<"/">>, <<"/", "x", "@", "y">>, <<"/">> \o URL}}
        \cup {a \o s \o p : a \in {<<>>, <<"//">>}, s \in Site, p \in {<<>>, <<"/", "x">>}}

(* A segment is what stands between slashes; no prefix of assets is one     *)
(* that names a record.                                                     *)
ASSUME SegmentsAssumption ==
    /\ "/" \notin Identifiers /\ assetPrefixes \cap Identifiers = {}
    /\ \A v \in Segments :
        v \in Seq(STRING) /\ v # <<>> /\ Without(v, {"/", "?", "#", "control"})

(* A path of up to two segments, and how a target may name it. *)
Paths == {<<>>} \cup {<<v>> : v \in Segments} \cup {<<v, w>> : v, w \in Segments}
Text(path) == IF path = <<>> THEN <<"/">> ELSE FlattenSeq([i \in DOMAIN path |-> <<"/">> \o path[i]])

Targets(path) ==
    {a \o Text(path) \o s \o q :
        a \in {<<>>, <<"http", "://", "example.com">>},
        s \in IF path = <<>> THEN {<<>>} ELSE {<<>>, <<"/">>},
        q \in {<<>>, <<"?", "next", "/">>, <<"#", "top">>}}

Page(path) ==
    [i \in DOMAIN path |->
        IF \E id \in Identifiers : path[i] = <<id>> THEN <<":id">> ELSE path[i]]

Furniture(path) ==
    \/ Len(path) > 1 /\ \E p \in assetPrefixes : path[1] = <<p>>
    \/ /\ path # <<>> /\ Len(Last(path)) > 1
       /\ \E e \in assetExtensions : IsSuffix(<<".", e>>, ToLower(Last(path)))

(* The inputs on which the algorithms differ from what they are to do. *)
OtherSites ==
    {h \in Hosts : \E s \in Spellings(h) : referrerSite(s) # clampItem(ToLower(h))}

OtherPages ==
    {path \in Paths :
        \E t \in Targets(path) : normalizePath(t) # clampItem(Text(Page(path)))}

(* What a visitor asks for who comes from host h. *)
Visit(target, h) ==
    [target |-> target, referrer |-> <<"http", "://">> \o h, status |-> "200"]

(* A row that had to be cut may have lost what tells furniture from pages. *)
Misplaced ==
    {path \in Paths :
        /\ Len(Text(Page(path))) <= MaxItem
        /\ \E row \in {rowsFor(Visit(t, h), <<>>) : t \in Targets(path), h \in Hosts} :
            Drawn(row) # IF Furniture(path) THEN {} ELSE {"page", "referrer"}}
=============================================================================
