-------------------------------- MODULE Cors --------------------------------
(* A page in a browser calls a server through a chain of middleware with     *)
(* CORS in it. Origins, header names and lists of them are sequences of      *)
(* characters, of which "a" and "b" have the upper case "A" and "B".         *)
EXTENDS Naturals, Sequences, Functions

CONSTANTS
  CorsOptions,   \* configurations: [origins, func, headers, methods, credentials, passthrough]
  Pages,         \* what a page asks for: [origin, method, headers, credentials]
  Chains,        \* orders of the middleware: sequences of "cors", "user" and others
  Trusted        \* the sets of origins AllowOriginFunc may accept

VARIABLES
  web,           \* the call of the page
  trusted        \* the origins AllowOriginFunc accepts now

corsVars == <<web, trusted>>

All == <<"*">>

\* The bytes of a header's name that are kept: letters, digits, "-", "_" and ".".
HeaderBytes == {"a", "A", "b", "B", "o", "t", "c", "0", "-", "_", "."}
Bytes == HeaderBytes \cup {"*", ",", " ", ":", "/"}

\* A page has an origin, and its headers have names.
ASSUME CorsAssumption ==
  /\ CorsOptions \subseteq [origins : SUBSET Seq(Bytes), func : BOOLEAN, headers : SUBSET Seq(Bytes),
                           methods : SUBSET STRING, credentials : BOOLEAN, passthrough : BOOLEAN]
  /\ Pages \subseteq [origin : Seq(Bytes) \ {<<>>, All}, method : STRING,
                     headers : Seq(Seq(HeaderBytes) \ {<<>>}), credentials : BOOLEAN]

LowerOf(c) == IF c = "A" THEN "a" ELSE IF c = "B" THEN "b" ELSE c
UpperOf(c) == IF c = "a" THEN "A" ELSE IF c = "b" THEN "B" ELSE c
ToLower(s) == [i \in DOMAIN s |-> LowerOf(s[i])]
ToUpper(method) == IF method = "patch" THEN "PATCH" ELSE method
CanonicalHeaderKey(s) ==
  [i \in DOMAIN s |-> IF i = 1 THEN UpperOf(s[i])
                      ELSE IF s[i - 1] = "-" THEN UpperOf(s[i]) ELSE LowerOf(s[i])]

-----------------------------------------------------------------------------
(* The configuration *)

Star(pattern) == CHOOSE i \in 0 .. Len(pattern) : IF "*" \in Range(pattern) THEN i > 0 /\ pattern[i] = "*"
                                                  /\ \A j \in 1 .. i - 1 : pattern[j] # "*" ELSE i = 0
wildcard(pattern) ==
  [prefix |-> SubSeq(pattern, 1, Star(pattern) - 1), suffix |-> SubSeq(pattern, Star(pattern) + 1, Len(pattern))]

\* "o" is Origin; Accept and Content-Type come with it by default.
ListedHeaders(o) == o.headers \cup {<<"o">>} \cup (IF o.headers = {} THEN {<<"t">>, <<"c">>} ELSE {})
NewCors(o) ==
  LET patterns == {ToLower(p) : p \in o.origins}
      all == IF patterns = {} THEN ~o.func ELSE All \in patterns
  IN [originsAll |-> all, func |-> o.func,
      origins |-> IF all THEN {} ELSE {p \in patterns : Star(p) = 0},
      wildcards |-> IF all THEN {} ELSE {wildcard(p) : p \in {q \in patterns : Star(q) # 0}},
      headersAll |-> All \in o.headers,
      headers |-> {CanonicalHeaderKey(h) : h \in ListedHeaders(o)},
      methods |-> IF o.methods = {} THEN {"GET", "POST", "HEAD"} ELSE {ToUpper(m) : m \in o.methods},
      credentials |-> o.credentials, passthrough |-> o.passthrough]

HasPrefix(s, prefix) == Len(s) >= Len(prefix) /\ SubSeq(s, 1, Len(prefix)) = prefix
HasSuffix(s, suffix) == Len(s) >= Len(suffix) /\ SubSeq(s, Len(s) - Len(suffix) + 1, Len(s)) = suffix
matchOverlapping(w, s) == HasPrefix(s, w.prefix) /\ HasSuffix(s, w.suffix)
match(w, s) == Len(s) >= Len(w.prefix \o w.suffix) /\ HasPrefix(s, w.prefix) /\ HasSuffix(s, w.suffix)

isOriginAllowed(c, origin) ==
  IF c.func THEN origin \in trusted
  ELSE c.originsAll \/ ToLower(origin) \in c.origins \/ \E w \in c.wildcards : match(w, ToLower(origin))
isMethodAllowed(c, method) == ToUpper(method) \in c.methods \cup {"OPTIONS"}
areHeadersAllowed(c, headers) ==
  c.headersAll \/ \A i \in DOMAIN headers : CanonicalHeaderKey(headers[i]) \in c.headers

\* The headers of a list, in canonical form, without the bytes that are dropped.
WithByte(st, b) == IF b \in HeaderBytes THEN Append(st.h, IF st.upper THEN UpperOf(b) ELSE LowerOf(b)) ELSE st.h
ReadByte(st, b, last) ==
  LET h == WithByte(st, b)
  IN IF b \notin {",", " "} /\ ~last THEN [h |-> h, upper |-> b = "-", out |-> st.out]
     ELSE IF h = <<>> THEN st ELSE [h |-> <<>>, upper |-> TRUE, out |-> Append(st.out, h)]
parseHeaderList(list) ==
  LET parsed[i \in 0 .. Len(list)] ==
        IF i = 0 THEN [h |-> <<>>, upper |-> TRUE, out |-> <<>>]
        ELSE ReadByte(parsed[i - 1], list[i], i = Len(list))
  IN parsed[Len(list)].out

-----------------------------------------------------------------------------
(* The server's answers, as the headers they carry *)

NoHeaders == [origin |-> <<>>, method |-> "", headers |-> {}, credentials |-> FALSE]
AllowOrigin(c, origin) == IF c.originsAll THEN All ELSE origin

handlePreflight(c, page, list) ==
  LET requested == parseHeaderList(list)
  IN IF isOriginAllowed(c, page.origin) /\ isMethodAllowed(c, page.method) /\ areHeadersAllowed(c, requested)
     THEN [origin |-> AllowOrigin(c, page.origin), method |-> ToUpper(page.method),
           headers |-> Range(requested), credentials |-> c.credentials]
     ELSE NoHeaders
handleActualRequest(c, page) ==
  IF isOriginAllowed(c, page.origin) /\ isMethodAllowed(c, page.method)
  THEN [NoHeaders EXCEPT !.origin = AllowOrigin(c, page.origin), !.credentials = c.credentials]
  ELSE NoHeaders

\* Then wraps the handler from the last constructor outwards, so a request
\* passes the constructors in their order: these run before CORS does.
Then(chain) ==
  LET wrapped[i \in 0 .. Len(chain)] ==
        IF i = 0 THEN <<"handler">> ELSE <<chain[Len(chain) - i + 1]>> \o wrapped[i - 1]
  IN wrapped[Len(chain)]
Before(chain) == LET flow == Then(chain) IN {flow[i] : i \in {j \in DOMAIN flow : "cors" \in Range(SubSeq(flow, j + 1, Len(flow)))}}

\* A preflight carries no token: the user middleware, asked first, refuses it.
RefusesPreflight(chain) == "user" \in Before(chain)

-----------------------------------------------------------------------------
(* The browser *)

CorsInit == web = [pc |-> "idle"] /\ trusted \in Trusted

AllowOriginFuncChanges ==
  /\ web.pc \in {"ask", "send"} /\ web.options.func
  /\ trusted' \in Trusted \ {trusted}
  /\ web' = [web EXCEPT !.stable = FALSE]

Simple(page) == page.method \in {"GET", "POST", "HEAD"} /\ page.headers = <<>>
Accepts(page, answer) ==
  IF page.credentials THEN answer.origin = page.origin /\ answer.credentials
  ELSE answer.origin \in {All, page.origin}
Approves(page, answer) ==
  /\ Accepts(page, answer)
  /\ page.method \in {answer.method, "GET", "POST", "HEAD"}
  /\ {CanonicalHeaderKey(h) : h \in Range(page.headers)} \subseteq answer.headers

\* The names of the page's headers, with commas.
Joined(headers) ==
  LET joined[i \in 0 .. Len(headers)] ==
        IF i = 0 THEN <<>>
        ELSE joined[i - 1] \o (IF i = 1 THEN <<>> ELSE <<",">>) \o headers[i]
  IN joined[Len(headers)]

Fetch(o, page, chain) ==
  /\ web.pc = "idle"
  /\ web' = [pc |-> IF Simple(page) THEN "send" ELSE "ask", options |-> o, page |-> page, chain |-> chain,
             stable |-> TRUE, read |-> FALSE, handled |-> 0]
  /\ UNCHANGED trusted

Preflight ==
  LET c == NewCors(web.options)
      answer == handlePreflight(c, web.page, Joined(web.page.headers))
  IN /\ web.pc = "ask"
     /\ web' = [web EXCEPT !.pc = IF ~RefusesPreflight(web.chain) /\ Approves(web.page, answer) THEN "send" ELSE "done",
                           !.handled = IF c.passthrough /\ ~RefusesPreflight(web.chain) THEN 1 ELSE 0]
     /\ UNCHANGED trusted

\* The handler runs whether or not the answer may be read.
Send ==
  LET c == NewCors(web.options)
  IN /\ web.pc = "send"
     /\ web' = [web EXCEPT !.pc = "done", !.handled = @ + 1,
                           !.read = Accepts(web.page, handleActualRequest(c, web.page))]
     /\ UNCHANGED trusted

FetchReturns == web.pc = "done" /\ web' = [pc |-> "idle"] /\ UNCHANGED trusted

CorsNext ==
  \/ \E o \in CorsOptions, page \in Pages, chain \in Chains : Fetch(o, page, chain)
  \/ Preflight \/ Send \/ FetchReturns \/ AllowOriginFuncChanges

-----------------------------------------------------------------------------
CorsSpec == CorsInit /\ [][CorsNext]_corsVars

\* The origin is the pattern, the first star of it standing for any text.
Meets(origin, p) ==
  IF "*" \notin Range(p) THEN ToLower(p) = ToLower(origin)
  ELSE \E i \in DOMAIN p, j, k \in 0 .. Len(origin) :
         /\ p[i] = "*" /\ \A n \in 1 .. i - 1 : p[n] # "*"
         /\ j <= k
         /\ ToLower(origin) = ToLower(SubSeq(p, 1, i - 1) \o SubSeq(origin, j + 1, k) \o SubSeq(p, i + 1, Len(p)))
Listed(o, origin) == o.origins = {} \/ \E p \in o.origins : Meets(origin, p)
Allowed(o, page) ==
  /\ IF o.func THEN page.origin \in trusted ELSE Listed(o, page.origin)
  /\ page.method \in (IF o.methods = {} THEN {"GET", "POST", "HEAD"} ELSE {ToUpper(m) : m \in o.methods}) \cup {"OPTIONS"}
  /\ \/ Simple(page) \/ All \in o.headers
     \/ \A h \in Range(page.headers) : \E g \in ListedHeaders(o) : ToLower(g) = ToLower(h)
  /\ page.credentials => o.credentials /\ ~NewCors(o).originsAll
  /\ Simple(page) \/ ~RefusesPreflight(web.chain)

(* A page reads the answer exactly if its origin, method and headers are      *)
(* among the configured ones (with credentials: if they are allowed and the   *)
(* origin is not answered with a star), although approval takes two requests; *)
(* and what needs a preflight reaches the handler only with approval. A       *)
(* method in lower case is approved by the server and refused by the browser. *)
(* While AllowOriginFunc answers the same.                                    *)
CorsIsExact ==
  (web.pc = "done" /\ web.stable) =>
    /\ web.read <=> Allowed(web.options, web.page)
    /\ Simple(web.page) \/ web.read \/ web.handled <= (IF web.options.passthrough THEN 1 ELSE 0)
=============================================================================
