------------------------------- MODULE Encoding -------------------------------
(***************************************************************************)
(* The hand-written JSON encoder of the record stream (output/encode.go),  *)
(* which appends to a byte slice, against the rules of encoding/json.      *)
(*                                                                         *)
(* Output is a sequence of tokens.  A string is a sequence of characters,  *)
(* each standing for its class; numbers, times and floats are tokens       *)
(* already, "NaN" being the float that cannot be encoded.  Slices and maps *)
(* are records [nil, items]; a map's items are in the order of its keys.   *)
(* Of several neighbouring fields of one kind one stands for all.          *)
(***************************************************************************)
EXTENDS Integers, Sequences, FiniteSets, SequencesExt

Nil == [nil |-> TRUE, items |-> <<>>]
Slice(items) == [nil |-> FALSE, items |-> items]

\* htmlSafeSet, and how the other classes are written.
Safe == {"x", "~", "wide"}
Escapes ==
  [c \in {"quote", "backslash", "newline", "tab", "control", "<", "&", "invalid", "linesep"} |->
     CASE c = "quote" -> "\\quote" [] c = "backslash" -> "\\backslash"
       [] c = "newline" -> "\\n" [] c = "tab" -> "\\t"
       [] c = "invalid" -> "\\ufffd" [] c = "linesep" -> "\\u2028"
       [] OTHER -> "\\u00" ]
-----------------------------------------------------------------------------
(* appendJSONString: runs of safe characters are copied when an escape or  *)
(* the end of the string is reached.                                       *)

KeepsStart(scan, i) == scan.start            \* slip: a run is not ended by its escape
AfterEscape(scan, i) == i + 1

EscapeAt(s, scan, i) ==
  IF s[i] \in Safe THEN scan
  ELSE [dst |-> scan.dst \o SubSeq(s, scan.start, i - 1) \o <<Escapes[s[i]]>>,
        start |-> AfterEscape(scan, i)]

AppendString(dst, s) ==
  LET scan[i \in 0..Len(s)] ==
        IF i = 0 THEN [dst |-> Append(dst, "quote"), start |-> 1] ELSE EscapeAt(s, scan[i - 1], i)
      end == scan[Len(s)]
  IN  end.dst \o SubSeq(s, end.start, Len(s)) \o <<"quote">>

AppendList(dst, open, close, list, Item(_, _)) ==
  IF list.nil THEN Append(dst, "null")
  ELSE LET upto[k \in 0..Len(list.items)] ==
             IF k = 0 THEN Append(dst, open)
             ELSE Item(IF k = 1 THEN upto[0] ELSE Append(upto[k - 1], ","), list.items[k])
       IN  Append(upto[Len(list.items)], close)

AppendStrings(dst, list) == AppendList(dst, "[", "]", list, AppendString)
AppendEntry(dst, e) == AppendString(AppendString(dst, e[1]) \o <<":">>, e[2])
AppendMap(dst, map) == AppendList(dst, "{", "}", map, AppendEntry)

\* Objects whose fields are all written.
AppendHop(dst, h) ==
  AppendString(dst \o <<"{", "URL:">>, h.url) \o <<",", "StatusCode:">> \o <<h.status>> \o <<"}">>
AppendParam(dst, p) ==
  AppendString(AppendString(dst \o <<"{", "Name:">>, p.name) \o <<",", "Value:">>, p.value) \o <<"}">>
AppendEndpoint(dst, e) ==
  AppendStrings(AppendString(dst \o <<"{", "URL:">>, e.url) \o <<",", "QueryParams:">>, e.query) \o <<"}">>
AppendDiscovery(dst, d) ==
  LET named == AppendString(dst \o <<"{", "URL:">>, d.url)
      params == AppendList(named \o <<",", "Params:">>, "[", "]", d.params, AppendParam)
  IN  AppendMap(params \o <<",", "Base:">>, d.base) \o <<"}">>
-----------------------------------------------------------------------------
(* The events: a fixed first field, then fields that may be left out.      *)

AppendField(dst, key, written, value) == IF written THEN dst \o <<",", key>> \o value ELSE dst

EmptyIsWritten(list) == ~list.nil            \* slip: nil is left out, empty is not
NotEmpty(list) == list.items # <<>>

AppendPage(e) ==
  LET stamped == <<"{", "type:">> \o <<"page">> \o <<",", "ts:">> \o <<"time">>
      head == AppendString(stamped \o <<",", "url:">>, e.url)
      final == AppendField(head, "final_url:", e.final # <<>>, AppendString(<<>>, e.final))
      status == final \o <<",", "status:">> \o <<e.status>>
      cut == AppendField(status, "truncated:", e.truncated, <<"true">>)
      chain == AppendField(cut, "redirect_chain:", NotEmpty(e.chain),
                           AppendList(<<>>, "[", "]", e.chain, AppendHop))
      found == AppendField(chain, "discoveries:", NotEmpty(e.found),
                           AppendList(<<>>, "[", "]", e.found, AppendDiscovery))
      retry == AppendField(found, "retry_attempts:", e.retries # "0", <<e.retries>>)
  IN  Append(retry, "}")

AppendError(e) ==
  LET head == AppendString(<<"{", "type:">> \o <<"error">> \o <<",", "url:">>, e.url)
      why == AppendString(head \o <<",", "error:">>, e.error)
  IN  Append(AppendField(why, "retry_attempts:", e.retries # "0", <<e.retries>>), "}")

AppendOpenAPI(e) ==
  LET head == <<"{", "type:">> \o <<"openapi">> \o <<",", "endpoints:">>
  IN  AppendList(head, "[", "]", e.endpoints, AppendEndpoint) \o <<"}">>

\* The two rates are the only values that can fail; a failed event is not written.
AppendSummary(e) ==
  LET head == AppendString(<<"{", "type:">> \o <<"summary">> \o <<",", "seed:">>, e.seed)
      partial == AppendField(head, "partial:", e.partial, <<"true">>)
      counted == partial \o <<",", "requests_made:">> \o <<e.requests>>
      rate == counted \o <<",", "urls_per_sec:">> \o <<e.rate>>
      useful == rate \o <<",", "useful:">> \o <<e.useful>>
  IN  IF "NaN" \in {e.rate, e.useful} THEN <<>> ELSE Append(useful, "}")

Encode(e) ==
  CASE e.type = "page" -> AppendPage(e) [] e.type = "error" -> AppendError(e)
    [] e.type = "openapi" -> AppendOpenAPI(e) [] OTHER -> AppendSummary(e)
-----------------------------------------------------------------------------
(* What encoding/json writes.  The members of an object are those its tags *)
(* do not leave out, joined with commas.                                   *)

Joined(parts) ==
  FlattenSeq([k \in DOMAIN parts |-> IF k = 1 THEN parts[k] ELSE <<",">> \o parts[k]])

Str(s) ==
  <<"quote">> \o [k \in DOMAIN s |-> IF s[k] \in Safe THEN s[k] ELSE Escapes[s[k]]] \o <<"quote">>
ListOf(list, Item(_)) ==
  IF list.nil THEN <<"null">>
  ELSE <<"[">> \o Joined([k \in DOMAIN list.items |-> Item(list.items[k])]) \o <<"]">>
EntryValue(e) == Str(e[1]) \o <<":">> \o Str(e[2])
MapOf(map) ==
  IF map.nil THEN <<"null">>
  ELSE <<"{">> \o Joined([k \in DOMAIN map.items |-> EntryValue(map.items[k])]) \o <<"}">>

Always(key, value) == <<<<key>> \o value>>
OmitEmpty(key, empty, value) == IF empty THEN <<>> ELSE Always(key, value)
Struct(members) == <<"{">> \o Joined(members) \o <<"}">>

HopValue(h) == Struct(Always("URL:", Str(h.url)) \o Always("StatusCode:", <<h.status>>))
ParamValue(p) == Struct(Always("Name:", Str(p.name)) \o Always("Value:", Str(p.value)))
EndpointValue(e) == Struct(Always("URL:", Str(e.url)) \o Always("QueryParams:", ListOf(e.query, Str)))
DiscoveryValue(d) ==
  Struct(Always("URL:", Str(d.url)) \o Always("Params:", ListOf(d.params, ParamValue))
           \o Always("Base:", MapOf(d.base)))
Retries(e) == OmitEmpty("retry_attempts:", e.retries = "0", <<e.retries>>)

PageValue(e) ==
  Struct(Always("type:", <<"page">>) \o Always("ts:", <<"time">>) \o Always("url:", Str(e.url))
           \o OmitEmpty("final_url:", e.final = <<>>, Str(e.final)) \o Always("status:", <<e.status>>)
           \o OmitEmpty("truncated:", ~e.truncated, <<"true">>)
           \o OmitEmpty("redirect_chain:", e.chain.items = <<>>, ListOf(e.chain, HopValue))
           \o OmitEmpty("discoveries:", e.found.items = <<>>, ListOf(e.found, DiscoveryValue))
           \o Retries(e))
ErrorValue(e) ==
  Struct(Always("type:", <<"error">>) \o Always("url:", Str(e.url)) \o Always("error:", Str(e.error))
           \o Retries(e))
OpenAPIValue(e) ==
  Struct(Always("type:", <<"openapi">>) \o Always("endpoints:", ListOf(e.endpoints, EndpointValue)))
SummaryValue(e) ==
  Struct(Always("type:", <<"summary">>) \o Always("seed:", Str(e.seed))
           \o OmitEmpty("partial:", ~e.partial, <<"true">>) \o Always("requests_made:", <<e.requests>>)
           \o Always("urls_per_sec:", <<e.rate>>) \o Always("useful:", <<e.useful>>))

Marshal(e) ==
  CASE e.type = "page" -> PageValue(e) [] e.type = "error" -> ErrorValue(e)
    [] e.type = "openapi" -> OpenAPIValue(e) [] OTHER -> SummaryValue(e)
=============================================================================
