------------------------------- MODULE Session -------------------------------
(***************************************************************************)
(* What happens before a crawl (cmd/chcrawl, config, auth): the command    *)
(* line is reordered and parsed, a login is made if asked for, its         *)
(* credentials are merged with the headers given, the options are          *)
(* validated, and the output and the engine are made.  flag.FlagSet is     *)
(* external: it stops at the first word.                                   *)
(*                                                                         *)
(* An argument is a record [dashes, name, eq, value]: "-name=value" if eq, *)
(* a word if it has no dash; "-" alone is a word.  Of the options of one   *)
(* type that are only stored, some stand for the others.                   *)
(***************************************************************************)
EXTENDS Pages

Toggles == {"same-origin", "include-subdomains", "legacy-mode", "sort-query-params", "render-js", "version"}
Amounts == {"concurrency", "per-host-concurrency", "max-pages", "max-depth", "max-frontier-size",
            "max-body-bytes", "render-concurrency", "render-timeout", "delay"}
Kind ==
  [f \in Toggles \cup Amounts \cup {"output", "header"} |->
     IF f \in Toggles THEN "bool" ELSE IF f \in Amounts THEN "int" ELSE IF f = "output" THEN "string" ELSE "header"]

DefaultAmount(f) ==
  CASE f = "concurrency" -> 10 [] f = "per-host-concurrency" -> 4 [] f = "max-pages" -> 100 [] f = "max-depth" -> 3
    [] f = "max-frontier-size" -> 100000 [] f = "max-body-bytes" -> 10485760 [] f = "render-concurrency" -> 4
    [] f = "render-timeout" -> 25 [] f = "delay" -> 0
Defaults ==
  [f \in DOMAIN Kind |->
     CASE f \in Toggles -> f = "same-origin"
       [] f \in Amounts -> DefaultAmount(f)
       [] f = "output" -> ""
       [] f = "header" -> <<>>]

NumberOf(d) == CASE d = "0" -> 0 [] d = "1" -> 1 [] d = "5" -> 5 [] d = "99" -> 99
Numbers == [d \in {"0", "1", "5", "99"} |-> NumberOf(d)]
\* The texts with a colon, cut at the first one and trimmed; no other text has one.
CutOf(t) ==
  CASE t = "X: 1" -> [name |-> "X", value |-> "1"] [] t = " X:2" -> [name |-> "X", value |-> "2"]
    [] t = "Y:1" -> [name |-> "Y", value |-> "1"] [] t = "http://s" -> [name |-> "http", value |-> "//s"]
    [] t = "ftp://s" -> [name |-> "ftp", value |-> "//s"]
Cuts == [t \in {"X: 1", " X:2", "Y:1", "http://s", "ftp://s"} |-> CutOf(t)]
Text(a) == IF a.dashes > 0 THEN "-" \o a.name ELSE a.name
IsWord(a) == a.dashes = 0 \/ (a.dashes = 1 /\ a.name = "")
Terminator(a) == a.dashes = 2 /\ a.name = ""

\* Whether a flag of this kind takes the argument as its value, and what it is then.
Converts(kind, a) ==
  CASE kind = "int" -> a.name \in DOMAIN Numbers /\ a.dashes < 2 /\ ~a.eq
    [] kind = "bool" -> a.name \in {"true", "false"} /\ a.dashes = 0
    [] kind = "header" -> Text(a) \in DOMAIN Cuts
    [] kind = "string" -> TRUE
Converted(kind, a) ==
  CASE kind = "int" -> IF a.dashes = 1 THEN -Numbers[a.name] ELSE Numbers[a.name]
    [] kind = "bool" -> a.name = "true"
    [] kind = "header" -> Entry(Cuts[Text(a)].name, Cuts[Text(a)].value)
    [] kind = "string" -> Text(a)
Given(a) == [dashes |-> 0, name |-> a.value, eq |-> FALSE, value |-> ""]
-----------------------------------------------------------------------------
(* reorderArgs: flags, each with its value, before the words.              *)

AlwaysTakes(a) == ~a.eq          \* slip: a boolean flag takes the next argument too
TakesNext(a) == ~a.eq /\ ~(a.name \in DOMAIN Kind /\ Kind[a.name] = "bool")

Placed(acc, a) ==
  CASE acc.takes -> [acc EXCEPT !.flags = Append(@, a), !.takes = FALSE]
    [] ~acc.takes /\ IsWord(a) -> [acc EXCEPT !.words = Append(@, a)]
    [] OTHER -> [acc EXCEPT !.flags = Append(@, a), !.takes = TakesNext(a)]
Split(args) ==
  LET split[n \in 0..Len(args)] ==
        IF n = 0 THEN [flags |-> <<>>, words |-> <<>>, takes |-> FALSE] ELSE Placed(split[n - 1], args[n])
  IN  split
ReorderArgs(args) ==
  LET end == Split(args)[Len(args)] IN end.flags \o end.words

\* flag.FlagSet.Parse.  Of the headers given under one name the last stays (headerFlag).
FirstHeaderStays(settings, f, v) ==          \* slip
  [settings EXCEPT ![f] = IF f = "header" THEN Over(@, v) ELSE v]
Assign(settings, f, v) ==
  [settings EXCEPT ![f] = IF f = "header" THEN Over(v, @) ELSE v]
Store(acc, f, a) ==
  IF Converts(Kind[f], a) THEN [acc EXCEPT !.settings = Assign(@, f, Converted(Kind[f], a)), !.at = "flags"]
  ELSE [acc EXCEPT !.at = "error"]
ReadFlag(acc, a) ==
  CASE a.name \notin DOMAIN Kind -> [acc EXCEPT !.at = "error"]
    [] a.name \in DOMAIN Kind /\ a.eq -> Store(acc, a.name, Given(a))
    [] a.name \in DOMAIN Kind /\ ~a.eq /\ Kind[a.name] = "bool" -> [acc EXCEPT !.settings = Assign(@, a.name, TRUE)]
    [] OTHER -> [acc EXCEPT !.at = "value", !.flag = a.name]
ReadArg(acc, a) ==
  CASE acc.at = "error" -> acc
    [] acc.at = "rest" -> [acc EXCEPT !.rest = Append(@, a)]
    [] acc.at = "value" -> Store(acc, acc.flag, a)
    [] acc.at = "flags" /\ IsWord(a) -> [acc EXCEPT !.at = "rest", !.rest = <<a>>]
    [] acc.at = "flags" /\ ~IsWord(a) /\ Terminator(a) -> [acc EXCEPT !.at = "rest"]
    [] acc.at = "flags" /\ ~IsWord(a) /\ ~Terminator(a) -> ReadFlag(acc, a)
Reading(args) ==
  LET reading[n \in 0..Len(args)] ==
        IF n = 0 THEN [at |-> "flags", flag |-> "none", settings |-> Defaults, rest |-> <<>>]
        ELSE ReadArg(reading[n - 1], args[n])
  IN  reading
ParseArgs(args) ==
  [Reading(args)[Len(args)] EXCEPT !.at = IF @ \in {"value", "error"} THEN "error" ELSE "parsed"]
-----------------------------------------------------------------------------
(* config.New: the options in order, then Delay's floor, then Validate.    *)

LegacyPreset(o) == [o EXCEPT !["sort-query-params"] = FALSE]
OptionsFrom(s) ==
  LET o == IF s["legacy-mode"] THEN LegacyPreset(s) ELSE s
  IN  [o EXCEPT !["delay"] = IF @ < 0 THEN 0 ELSE @]

AnyPerHost(o) == o["per-host-concurrency"] >= 1      \* slip: it may exceed the workers
PerHostFits(o) == o["per-host-concurrency"] \in 1..o["concurrency"]

Validate(o, seed) ==
  /\ seed.parses /\ seed.scheme \in {"http", "https"}
  /\ o["concurrency"] >= 1 /\ PerHostFits(o)
  /\ o["max-pages"] >= 0 /\ o["max-depth"] >= 0 /\ o["max-body-bytes"] >= 1 /\ o["max-frontier-size"] >= 1
  /\ o["render-js"] => o["render-concurrency"] >= 1 /\ o["render-timeout"] > 0
  /\ o["include-subdomains"] => o["same-origin"]

\* The seed a word stands for.
SeedOf(word) == [parses |-> word.name \in {"http://s", "ftp://s"},
                 scheme |-> IF word.name = "ftp://s" THEN "ftp" ELSE "http"]

\* Where the events go.
WriterFor(outPath) ==
  CASE outPath = "-" -> <<"records on stdout">>
    [] outPath = "" -> <<"console">>
    [] OTHER -> <<"console", "records in a file">>

\* What can fail on the way: the login (below), creating the output file, engine.New.
Efforts == {"login", "file", "engine"}
Fatal(fails, outPath) == fails \cap {"login", "engine"} # {} \/ ("file" \in fails /\ outPath \notin {"-", ""})

NotStarted == [runs |-> FALSE]
Start(args, fails) ==
  LET parsed == ParseArgs(ReorderArgs(args))
      o == OptionsFrom(parsed.settings) IN
  IF \/ parsed.at = "error" \/ parsed.settings["version"] \/ Len(parsed.rest) # 1
     \/ ~Validate(o, SeedOf(parsed.rest[1])) \/ Fatal(fails, o["output"])
    THEN NotStarted
  ELSE [runs |-> TRUE, seed |-> parsed.rest[1], options |-> o, writers |-> WriterFor(o["output"])]
-----------------------------------------------------------------------------
(* What the arguments say, read from left to right with flags and words in *)
(* any order.                                                              *)

RoleAfter(before, a) ==
  CASE before \in {"end", "rest"} -> "rest"
    [] before = "takes" -> "value"
    [] before \notin {"end", "rest", "takes"} ->
         CASE IsWord(a) -> "word"
           [] ~IsWord(a) /\ Terminator(a) -> "end"
           [] ~IsWord(a) /\ ~Terminator(a) ->
                IF a.name \notin DOMAIN Kind THEN "unknown"
                ELSE IF a.eq \/ Kind[a.name] = "bool" THEN "whole" ELSE "takes"
Roles(args) ==
  LET role[i \in 0..Len(args)] == IF i = 0 THEN "word" ELSE RoleAfter(role[i - 1], args[i])
  IN  role

True == [dashes |-> 0, name |-> "true", eq |-> FALSE, value |-> ""]
ValueOf(args, role, i) ==
  CASE role[i] = "takes" -> args[i + 1]
    [] role[i] = "whole" /\ args[i].eq -> Given(args[i])
    [] OTHER -> True
SetBy(args, role, f) == {i \in 1..Len(args) : role[i] \in {"takes", "whole"} /\ args[i].name = f}

Meant(args) ==
  LET role == Roles(args)
      n == Len(args)
      Sets(f) == SetBy(args, role, f)
      words == {i \in 1..n : role[i] \in {"word", "rest"}}
      clear == /\ Cardinality(words) = 1 /\ role[n] # "takes"
               /\ \A i \in 1..n : role[i] # "unknown"
               /\ \A f \in DOMAIN Kind : \A i \in Sets(f) : Converts(Kind[f], ValueOf(args, role, i))
      LastOf(T) == CHOOSE i \in T : \A j \in T : j <= i
      Cut(i) == Cuts[Text(ValueOf(args, role, i))]
      headers == [m \in {Cut(i).name : i \in Sets("header")} |->
                    Cut(LastOf({i \in Sets("header") : Cut(i).name = m})).value]
  IN  IF ~clear THEN NotStarted
      ELSE [runs |-> TRUE, seed |-> args[CHOOSE i \in words : TRUE],
            settings |-> [f \in DOMAIN Kind |->
              CASE f = "header" -> headers
                [] f # "header" /\ Sets(f) = {} -> Defaults[f]
                [] OTHER -> Converted(Kind[f], ValueOf(args, role, LastOf(Sets(f))))]]
Trailing(args) == args # <<>> /\ Roles(args)[Len(args)] = "takes"

\* What the crawl needs of its options.
Workable(o) ==
  /\ {o["max-pages"], o["max-depth"], o["delay"]} \subseteq Nat
  /\ {o["concurrency"], o["per-host-concurrency"], o["max-frontier-size"], o["max-body-bytes"]} \subseteq Nat \ {0}
  /\ o["per-host-concurrency"] <= o["concurrency"]
  /\ o["render-js"] => {o["render-concurrency"], o["render-timeout"]} \subseteq Nat \ {0}
-----------------------------------------------------------------------------
(* Logging in.  An account has what the login page answers, what the       *)
(* submission answers and what the command line says.                      *)

FieldsOf(inputs) ==      \* collectHidden
  LET known[k \in 0..Len(inputs)] ==
        IF k = 0 THEN <<>>
        ELSE IF inputs[k].hidden /\ inputs[k].name # ""
               THEN Over(Entry(inputs[k].name, inputs[k].value), known[k - 1]) ELSE known[k - 1]
  IN  known[Len(inputs)]
NoForm == [action |-> Absent, method |-> "", inputs |-> <<>>]
ParseLoginForm(page) ==
  LET form == IF page.forms = <<>> THEN NoForm ELSE page.forms[1] IN
  [action |-> IF Resolves(form.action) THEN Resolve(page.final, form.action) ELSE page.final,
   method |-> IF form.method = "" THEN "POST" ELSE form.method, hidden |-> FieldsOf(form.inputs)]

HiddenWins(form, flags) ==           \* slip
  Over(form.hidden, Over(Entry(flags.userField, flags.user), Entry(flags.passField, flags.pass)))
Submitted(form, flags) ==
  Over(Entry(flags.passField, flags.pass), Over(Entry(flags.userField, flags.user), form.hidden))

\* extractTokenFromJSON: answer.token is what each of its keys holds, in their order.
Tokens(answer) == SelectSeq(answer.token, LAMBDA t : t \notin {"missing", "no string", ""})

Nothing == [ok |-> TRUE, cookies |-> "", headers |-> <<>>]
Failed == [ok |-> FALSE]
AuthHeader(v) == Entry("Authorization", v)
FormLogin(account) ==
  IF ~(account.page.answers /\ account.answer.answers) THEN Failed
  ELSE [ok |-> TRUE, cookies |-> account.answer.cookies,
        headers |-> IF Tokens(account.answer) = <<>> THEN <<>>
                    ELSE AuthHeader(<<"Bearer", Tokens(account.answer)[1]>>)]
BearerLogin(account) ==
  IF ~account.answer.answers \/ Tokens(account.answer) = <<>> THEN Failed
  ELSE [Nothing EXCEPT !.headers = AuthHeader(<<"Bearer", Tokens(account.answer)[1]>>)]
BasicAuth(flags) == [Nothing EXCEPT !.headers = AuthHeader(<<"Basic", flags.basic>>)]

Active(flags) ==
  {m \in {"form", "bearer", "basic"} :
     CASE m = "form" -> flags.loginURL /\ flags.user # ""
       [] m = "bearer" -> flags.tokenURL
       [] m = "basic" -> flags.basic # ""}

Login(account) ==
  LET flags == account.flags IN
  CASE Cardinality(Active(flags)) > 1 -> Failed
    [] Active(flags) = {} -> Nothing
    [] Active(flags) = {"form"} -> FormLogin(account)
    [] Active(flags) = {"bearer"} -> BearerLogin(account)
    [] Active(flags) = {"basic"} -> BasicAuth(flags)

\* The merge of run, keys as they are spelled; then fetch.New, where a header's
\* canonical name takes the value of whichever spelling the map yields last.
GivenWins(result, given) == Over(given, result.headers)        \* slip
MergedHeaders(result, given) == Over(result.headers, given)
MergedCookies(result, flags) == IF flags.cookies = "" THEN result.cookies ELSE flags.cookies

Canonical(name) == IF name = "authorization" THEN "Authorization" ELSE name
BaseHeaders(headers, cookies) ==
  LET names == {Canonical(n) : n \in DOMAIN headers}
      Values(n) == {headers[m] : m \in {x \in DOMAIN headers : Canonical(x) = n}}
      all == {h \in [names -> {headers[n] : n \in DOMAIN headers}] : \A n \in names : h[n] \in Values(n)}
  IN  IF cookies = "" THEN all ELSE {Over(Entry("Cookie", <<cookies>>), h) : h \in all}

Sent(account) ==
  BaseHeaders(MergedHeaders(Login(account), account.flags.headers), MergedCookies(Login(account), account.flags))
-----------------------------------------------------------------------------
OtherSpelling(account) == "authorization" \in DOMAIN account.flags.headers

\* "login-derived headers always win on collision": whatever case the other header
\* is written in.
LoginAlwaysWins(account) ==
  Login(account).ok /\ "Authorization" \in DOMAIN Login(account).headers
    => \A h \in Sent(account) : h["Authorization"] = Login(account).headers["Authorization"]
=============================================================================
