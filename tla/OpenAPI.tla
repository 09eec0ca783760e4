------------------------------- MODULE OpenAPI -------------------------------
(***************************************************************************)
(* The OpenAPI probe (openapi): where a document is looked for, which one  *)
(* is taken, and the operations read from it, in Swagger 2 and OpenAPI 3.  *)
(*                                                                         *)
(* A document is what its keys hold after decoding: [decodes, swagger,     *)
(* openapi3, hasPaths, base, servers, defs, items].  An object that may be *)
(* a reference has a field ref, "" if it is none; defs are the objects     *)
(* references lead to.  A parameter list holds the entries that are        *)
(* objects: the others are skipped.  Path items are in the order of their  *)
(* paths, and an item's operations in the order of httpMethods.            *)
(***************************************************************************)
EXTENDS Integers, Sequences, FiniteSets, SequencesExt

NilObject == [ref |-> "", nil |-> TRUE]

OriginalWins(doc, obj) == obj       \* slip: a reference is never followed
ResolveObj(doc, obj) ==
  IF ~obj.nil /\ obj.ref # "" /\ obj.ref \in DOMAIN doc.defs THEN doc.defs[obj.ref] ELSE obj

ParamKey(p) == <<p.name, p.in>>

\* Later entries replace the value of a key and keep its place.
KeepsBoth(merged, p) == Append(merged, p)          \* slip: no overriding
AddParam(merged, p) ==
  IF \E k \in DOMAIN merged : ParamKey(merged[k]) = ParamKey(p)
    THEN [k \in DOMAIN merged |-> IF ParamKey(merged[k]) = ParamKey(p) THEN p ELSE merged[k]]
    ELSE Append(merged, p)

MergeParams(doc, pathLevel, opLevel) ==
  LET list == pathLevel \o opLevel
      merged[n \in 0..Len(list)] ==
        IF n = 0 THEN <<>> ELSE AddParam(merged[n - 1], ResolveObj(doc, list[n]))
  IN  merged[Len(list)]

Bucket(params, in) ==
  FlattenSeq([k \in DOMAIN params |->
    IF params[k].in = in /\ params[k].name # "" THEN <<params[k].name>> ELSE <<>>])

\* The property names, sorted: schemas list theirs in that order.
PropertyNames(doc, schema) ==
  LET s == ResolveObj(doc, schema) IN IF s.nil THEN <<>> ELSE s.properties

BodyV2(doc, merged) ==
  LET bodies == SelectSeq(merged, LAMBDA p : p.in = "body")
  IN  Bucket(merged, "formData")
        \o FlattenSeq([k \in DOMAIN bodies |-> PropertyNames(doc, bodies[k].schema)])

\* preferredBodySchema: JSON, or whichever other type map iteration meets first.
BodySchemas(content) ==
  LET others == {content[t] : t \in {u \in DOMAIN content : ~content[u].nil}} IN
  CASE "application/json" \in DOMAIN content -> {content["application/json"]}
    [] others = {} -> {NilObject}
    [] OTHER -> others

\* The parameter lists the body may be reported with.
BodiesV3(doc, op) ==
  LET rb == ResolveObj(doc, op.body) IN
  IF rb.nil THEN {<<>>} ELSE {PropertyNames(doc, s) : s \in BodySchemas(rb.content)}

\* A bare path, or the path of a full URL.
FirstServerPath(servers) == IF servers = <<>> THEN "" ELSE servers[1].path

EndpointOf(doc, v2, item, op) ==
  LET merged == MergeParams(doc, item.params, op.params) IN
  [base |-> IF v2 THEN doc.base ELSE FirstServerPath(doc.servers), path |-> item.path, method |-> op.method,
   pathParams |-> Bucket(merged, "path"), queryParams |-> Bucket(merged, "query"),
   bodies |-> IF v2 THEN {BodyV2(doc, merged)} ELSE BodiesV3(doc, op)]
OfItem(doc, v2, item) == [k \in DOMAIN item.ops |-> EndpointOf(doc, v2, item, item.ops[k])]
Endpoints(doc, v2) == FlattenSeq([k \in DOMAIN doc.items |-> OfItem(doc, v2, doc.items[k])])

Loads(doc) == doc.decodes /\ (doc.swagger \/ doc.openapi3 \/ doc.hasPaths)
-----------------------------------------------------------------------------
(* Discover: one answer per canonical location, [status, html, embeds,     *)
(* second, doc]; a page that embeds a document's URL leads to it with a    *)
(* second request.  A status of 0 is a failed request.                     *)

Refused(status) == status = 0 \/ status >= 400

StopsAtPage(a) == ~Refused(a.status) /\ ~a.html /\ Loads(a.doc)     \* slip: pages embed nothing
Usable(a) ==
  /\ ~Refused(a.status) /\ Loads(a.doc)
  /\ a.html => a.embeds /\ ~Refused(a.second)

NoSpec == <<>>
Discover(answers) ==
  LET usable == {k \in DOMAIN answers : Usable(answers[k])}
      doc == answers[CHOOSE k \in usable : \A j \in usable : k <= j].doc
  IN  IF usable = {} THEN NoSpec ELSE <<Endpoints(doc, doc.swagger)>>

\* What the engine adds to openapi_endpoints.
EndpointCount(answers) == IF Discover(answers) = NoSpec THEN 0 ELSE Len(Discover(answers)[1])
-----------------------------------------------------------------------------
(* An operation's parameters by the specification's rule: the operation's  *)
(* own declaration of a name and place, or else the path's.                *)

Referent(doc, p) == IF p.ref \in DOMAIN doc.defs THEN doc.defs[p.ref] ELSE p
DeclaredIn(doc, list, key) == {k \in DOMAIN list : ParamKey(Referent(doc, list[k])) = key}
Declares(doc, list, key) == DeclaredIn(doc, list, key) # {}
EffectiveParam(doc, item, op, key) ==
  LET list == IF Declares(doc, op.params, key) THEN op.params ELSE item.params
      last == CHOOSE k \in DeclaredIn(doc, list, key) : \A j \in DeclaredIn(doc, list, key) : j <= k
  IN  Referent(doc, list[last])
ParamKeys(doc, item, op) ==
  {ParamKey(Referent(doc, p)) : p \in ToSet(item.params) \cup ToSet(op.params)}

\* Each name and place is there once, with the operation's declaration if it has
\* one; the path's parameters keep their order and come first.
ParamsFollowTheRule(doc, item, op) ==
  LET merged == MergeParams(doc, item.params, op.params) IN
  /\ {ParamKey(merged[k]) : k \in DOMAIN merged} = ParamKeys(doc, item, op)
  /\ Len(merged) = Cardinality(ParamKeys(doc, item, op))
  /\ \A k \in DOMAIN merged : merged[k] = EffectiveParam(doc, item, op, ParamKey(merged[k]))
  /\ \A j, k \in DOMAIN merged :
       j < k /\ Declares(doc, item.params, ParamKey(merged[k])) => Declares(doc, item.params, ParamKey(merged[j]))

\* "falling back to the first available content type": one answer per document.
BodyIsDetermined(doc, op) == Cardinality(BodiesV3(doc, op)) = 1
=============================================================================
