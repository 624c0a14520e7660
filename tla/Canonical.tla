----------------------------- MODULE Canonical -----------------------------
(***************************************************************************)
(* Canonicalize (pkg/frontier/canonical.go), which both frontiers apply to *)
(* a URL before they look it up among those already seen, and whose result *)
(* is what is fetched.                                                     *)
(*                                                                         *)
(* A URL is what the function tells apart of its spelling: the scheme; the *)
(* letter case of scheme and host; the port; the path, as a sequence of    *)
(* characters and percent-encoded ones; the query, as a sequence of pairs  *)
(* of (key, value); and whether there is a fragment.  url.Parse and        *)
(* URL.String (net/url) are external: of the path Parse keeps the decoded  *)
(* form and, if encoding that would not give it back, the spelling.        *)
(***************************************************************************)
EXTENDS Integers, Sequences, FiniteSets, SequencesExt

\* The spellings over given characters and ports.  A parameter stands for the
\* places of its key and its value in the order of strings.
URLs(Chars, Ports) ==
    [scheme : {"http", "https"}, upper : BOOLEAN, port : Ports, path : Seq(Chars),
     query : Seq(Int \X Int), frag : BOOLEAN]

\* "~" and "/" are spelled as they are by default, a blank is encoded.
Decoded == [t \in {"%7E", "%2F", "%20"} |->
    CASE t = "%7E" -> "~" [] t = "%2F" -> "/" [] t = "%20" -> " "]
Decode(p) == [i \in DOMAIN p |-> IF p[i] \in DOMAIN Decoded THEN Decoded[p[i]] ELSE p[i]]
Encode(p) == [i \in DOMAIN p |-> IF p[i] = " " THEN "%20" ELSE p[i]]

\* url.Parse: Path and RawPath.
Parse(raw) ==
    [path |-> Decode(raw.path),
     rawPath |-> IF Encode(Decode(raw.path)) = raw.path THEN <<>> ELSE raw.path]

\* URL.EscapedPath: RawPath counts only while it is validly encoded and still
\* spells Path.
Escaped(u) ==
    IF u.rawPath # <<>> /\ " " \notin Range(u.rawPath) /\ Decode(u.rawPath) = u.path
    THEN u.rawPath ELSE Encode(u.path)

DefaultPort(scheme) == IF scheme = "http" THEN "80" ELSE "443"

\* The parameters sorted by key, those of a key by value (sort.Strings).
Before(a, b) == a[1] < b[1] \/ (a[1] = b[1] /\ a[2] <= b[2])
Orders(q) ==
    {p \in Bijection(DOMAIN q, DOMAIN q) :
        \A i, j \in DOMAIN q : i < j => Before(q[p[i]], q[p[j]])}
Sorted(q) == LET p == CHOOSE p \in Orders(q) : TRUE IN [i \in DOMAIN q |-> q[p[i]]]

\* strings.TrimRight(path, "/")
Trimmed(p) == SubSeq(p, 1, Max({0} \cup {i \in DOMAIN p : p[i] # "/"}))

\* Fault: only URLs that have a query lose their default port.
DropPortOfQueries(raw) ==
    IF raw.port = DefaultPort(raw.scheme) /\ raw.query # <<>> THEN "" ELSE raw.port

DropPort(raw) == IF raw.port = DefaultPort(raw.scheme) THEN "" ELSE raw.port

\* A "%" that begins no escape makes url.Parse fail.
Unparsable(raw) == "%" \in Range(raw.path)

Canonicalize(raw) ==
    LET u == Parse(raw) IN
    IF Unparsable(raw) THEN raw ELSE
    [scheme |-> raw.scheme, upper |-> FALSE, port |-> DropPort(raw),
     path |-> Escaped([u EXCEPT !.path = IF Len(@) > 1 THEN Trimmed(@) ELSE @]),
     query |-> Sorted(raw.query),
     frag |-> FALSE]

-----------------------------------------------------------------------------
(* Properties *)

\* What all spellings of a resource have in common.
Resource(raw) ==
    [scheme |-> raw.scheme,
     port |-> IF raw.port = "" THEN DefaultPort(raw.scheme) ELSE raw.port,
     path |-> Trimmed(Decode(raw.path)),
     params |-> {<<p, Cardinality({i \in DOMAIN raw.query : raw.query[i] = p})>> :
                     p \in Range(raw.query)}]

Root(raw) == raw.path = <<"/">>
Plain(raw) == Range(raw.path) \cap {"%7E", "%2F", "%"} = {}

\* A canonical URL is its own canonical form, so that one that a frontier has
\* handed out is recognized when it comes back; two URLs with one canonical
\* form are spellings of one resource, so that no page is dropped for another;
\* and spellings that differ in letter case, default port, fragment, order of
\* parameters or trailing slashes have one canonical form (the root's slash
\* stays, and escapes that a path need not have are not resolved).
CanonicalForms(a, b) ==
    /\ Canonicalize(Canonicalize(a)) = Canonicalize(a)
    /\ Canonicalize(a) = Canonicalize(b) => Resource(a) = Resource(b)
    /\ Resource(a) = Resource(b) /\ Plain(a) /\ Plain(b) /\ (Root(a) <=> Root(b))
           => Canonicalize(a) = Canonicalize(b)

=============================================================================
