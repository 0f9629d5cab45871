------------------------------- MODULE Discovery -------------------------------
(***************************************************************************)
(* The service discovery client (src/internal/db/service_discovery.go):    *)
(* the choice of an endpoint, and the endpoint mask that is derived from a *)
(* URL the user gives and rendered for each service.                       *)
(*                                                                         *)
(* A request is a path and a query, both sequences of tokens as they are   *)
(* written.  What is abstracted: a path is one segment; a name is a token  *)
(* without a dot; fragments, users and ports of URLs; and that a mask is   *)
(* trimmed and gets a leading slash.                                       *)
(***************************************************************************)
EXTENDS Selections

CONSTANTS Failed,  \* the function returns an error
          NoMask   \* there is nothing to derive a mask from

\* Tokens as a URL spells them: a name, the dot and what follows it, a colon, the
\* placeholders <db>, <...> and %s, and the percent-encoded ones.
Plain == {"name", "dot", "colon", "db", "other", "s"}
Encoded == {"colon%", "db%", "other%", "s%"}
Tokens == Plain \cup Encoded
Placeholders == {"db", "other", "s"}

DecodeToken(t) ==
  CASE t = "colon%" -> "colon" [] t = "db%" -> "db"
    [] t = "other%" -> "other" [] t = "s%" -> "s" [] OTHER -> t
EncodeToken(t) ==
  CASE t = "colon" -> "colon%" [] t = "db" -> "db%"
    [] t = "other" -> "other%" [] t = "s" -> "s%" [] OTHER -> t
RestoreToken(t) ==
  CASE t = "db%" -> "db" [] t = "s%" -> "s" [] t = "colon%" -> "colon" [] OTHER -> t

Each(Op(_), ts) == [i \in DOMAIN ts |-> Op(ts[i])]

\* A query is a sequence of <<key, tokens>>; "a" and "z" stand for the keys that sort
\* before "service" and after it.
Parameters(T) == {"a", "service", "z"} \X Seq(T)
RequestsOf(T) == [path : Seq(T), query : Seq(Parameters(T))]
URLs == RequestsOf(Tokens)

ASSUME ResultAssumption ==
  \A result \in {Failed, NoMask} : result \notin RequestsOf(Tokens \cup {"service"})

EachValue(Op(_), query) ==
  [i \in DOMAIN query |-> <<query[i][1], Each(Op, query[i][2])>>]

Has(ts, set) == ToSet(ts) \cap set # {}
AnyHas(request, set) ==
  Has(request.path, set) \/ \E i \in DOMAIN request.query : Has(request.query[i][2], set)

-----------------------------------------------------------------------------
(* Endpoints                                                                *)

\* Mutant of ChooseEndpoint: the default route of the role is not looked for.
ChooseEndpointOfRole(endpoints, role) ==
  LET same == SelectInSeq(endpoints, LAMBDA e : e.address /\ e.role = role)
      default == SelectInSeq(endpoints, LAMBDA e : e.address /\ e.default)
      any == SelectInSeq(endpoints, LAMBDA e : e.address)
  IN CASE role # "any" /\ same # 0 -> same
       [] (role = "any" \/ same = 0) /\ default # 0 -> default
       [] (role = "any" \/ same = 0) /\ default = 0 /\ any # 0 -> any
       [] OTHER -> Failed

\* The first endpoint with an address that is the default route of the role; else
\* of the role; else a default route; else any.
ChooseEndpoint(endpoints, role) ==
  LET OfRole(e) == e.address /\ role # "any" /\ e.role = role
      Pick(Match(_)) == SelectInSeq(endpoints, Match)
      best == Pick(LAMBDA e : OfRole(e) /\ e.default)
      same == Pick(OfRole)
      default == Pick(LAMBDA e : e.address /\ e.default)
      any == Pick(LAMBDA e : e.address)
  IN CASE best # 0 -> best
       [] best = 0 /\ same # 0 -> same
       [] best = 0 /\ same = 0 /\ default # 0 -> default
       [] best = 0 /\ same = 0 /\ default = 0 /\ any # 0 -> any
       [] OTHER -> Failed

-----------------------------------------------------------------------------
(* Masks                                                                    *)

\* url.Parse refuses a path with a bare %s; RequestURI encodes a path that is not
\* written the way a path may be, and leaves the query as it is.
Parses(request) == ~Has(request.path, {"s"})
RequestURI(request) ==
  [request EXCEPT !.path =
     IF Has(@, {"db", "other"})
     THEN Each(LAMBDA t : IF t = "colon" THEN t ELSE EncodeToken(t), Each(DecodeToken, @))
     ELSE @]

\* Mutant of Restore: the placeholders stay encoded.
RestoreNothing(request) == request

\* restoreMaskPlaceholders
Restore(request) ==
  [path |-> Each(RestoreToken, request.path),
   query |-> EachValue(RestoreToken, request.query)]

\* NormalizeEndpointMask of a request.
Normalize(request) == IF AnyHas(request, Placeholders) THEN request ELSE Failed

\* deriveServiceMaskValue: what comes before the first dot gives way to <db>.
DeriveValue(value) ==
  LET dot == SelectInSeq(value, LAMBDA t : t = "dot") IN
  CASE Has(value, Placeholders) -> value
    [] ~Has(value, Placeholders) /\ dot > 1 -> <<"db">> \o SubSeq(value, dot, Len(value))
    [] OTHER -> <<"db">>

\* url.Values in the order of their keys, with another parameter "service".
WithService(query, service) ==
  LET Of(key) == At(query, {i \in DOMAIN query : query[i][1] = key}) IN
  Of("a") \o <<service>> \o Of("z")

\* The mask of a URL: the URL itself when it has a placeholder, else the URL with
\* a placeholder for the name in the parameter "service".
ExtractMask(request) ==
  LET uri == Restore(RequestURI(request))
      decoded == EachValue(DecodeToken, request.query)
      service == SelectInSeq(decoded, LAMBDA p : p[1] = "service")
      value == decoded[service][2]
      sorted == WithService(decoded, <<"service", DeriveValue(value)>>)
  IN IF ~Parses(request) THEN Failed
     ELSE IF AnyHas(uri, Placeholders) THEN Normalize(uri)
     ELSE IF service = 0 \/ (service # 0 /\ value = <<>>) THEN NoMask
     ELSE Normalize(Restore(RequestURI(
            [request EXCEPT !.query = EachValue(EncodeToken, sorted)])))

\* Every %s gives way to the service, or else the first <...> (a mask begins with
\* the path); "service" is the service's encoded name.
Render(mask) ==
  LET Angle(ts) == SelectInSeq(ts, LAMBDA t : t \in {"db", "other"})
      first == SelectInSeq(mask.query, LAMBDA p : Angle(p[2]) # 0)
  IN IF AnyHas(mask, {"s"})
     THEN LET Fill(t) == IF t = "s" THEN "service" ELSE t IN
          [path |-> Each(Fill, mask.path), query |-> EachValue(Fill, mask.query)]
     ELSE IF Angle(mask.path) # 0
     THEN [mask EXCEPT !.path[Angle(mask.path)] = "service"]
     ELSE LET p == mask.query[first] IN
          [mask EXCEPT !.query[first] = <<p[1], [p[2] EXCEPT ![Angle(p[2])] = "service"]>>]
=============================================================================
