-------------------------------- MODULE Wire -------------------------------
(***************************************************************************)
(* How an error of the service travels: to the audit log under the code of *)
(* errorCodeFor, and over HTTP under the status and code of MapError, from *)
(* which the client takes the sentinel back.  Three tables in three        *)
(* packages, which have to agree.  "ok" is the nil error, and an error     *)
(* that wraps none of the sentinels is "other".                            *)
(***************************************************************************)
EXTENDS Integers

\* service/errors.go
ServiceErrors ==
  {"ErrNotFound", "ErrUnauthorized", "ErrForbidden", "ErrConflict", "ErrInvalidPlanHash",
   "ErrVenueNotFound", "ErrVenueAmbiguous", "ErrUpstreamUnavailable", "ErrInvalidArgument",
   "ErrTokenExpired", "ErrTokenRevoked", "ErrInviteExpired", "ErrInviteConsumed",
   "ErrIdempotencyConflict", "ErrNotImplemented"}

\* The errors of the provider that pass through the service unchanged.
ProviderErrors == {"ErrRateLimited", "ErrAuthExpired"}

\* The cases of errorCodeFor; the rest is "internal".
ErrorCodes ==
  [ErrNotFound |-> "not_found", ErrUnauthorized |-> "unauthorized",
   ErrForbidden |-> "forbidden", ErrConflict |-> "conflict",
   ErrInvalidPlanHash |-> "invalid_plan_hash", ErrVenueNotFound |-> "venue_not_found",
   ErrVenueAmbiguous |-> "venue_ambiguous", ErrUpstreamUnavailable |-> "upstream_unavailable",
   ErrInvalidArgument |-> "invalid_argument", ErrTokenExpired |-> "token_expired",
   ErrTokenRevoked |-> "token_revoked", ErrInviteExpired |-> "invite_expired",
   ErrInviteConsumed |-> "invite_consumed", ErrIdempotencyConflict |-> "idempotency_conflict",
   ErrNotImplemented |-> "not_implemented"]

errorCodeFor(e) ==
  CASE e = "ok"                 -> "none"
    [] e \in DOMAIN ErrorCodes  -> ErrorCodes[e]
    [] OTHER                    -> "internal"

Mapping(status, code) == [status |-> status, code |-> code]

\* The cases of MapError.
ErrorMapping ==
  [ErrTokenExpired |-> Mapping(401, "token_expired"),
   ErrTokenRevoked |-> Mapping(401, "token_revoked"),
   ErrUnauthorized |-> Mapping(401, "unauthenticated"),
   ErrForbidden |-> Mapping(403, "forbidden"),
   ErrVenueNotFound |-> Mapping(404, "venue_not_found"),
   ErrNotFound |-> Mapping(404, "not_found"),
   ErrVenueAmbiguous |-> Mapping(409, "venue_ambiguous"),
   ErrInviteConsumed |-> Mapping(409, "invite_consumed"),
   ErrIdempotencyConflict |-> Mapping(409, "idempotency_conflict"),
   ErrConflict |-> Mapping(409, "conflict"),
   ErrInviteExpired |-> Mapping(410, "invite_expired"),
   ErrInvalidPlanHash |-> Mapping(422, "plan_hash_mismatch"),
   ErrInvalidArgument |-> Mapping(422, "validation_failed"),
   ErrRateLimited |-> Mapping(429, "rate_limited"),
   ErrAuthExpired |-> Mapping(502, "provider_session_expired"),
   ErrUpstreamUnavailable |-> Mapping(502, "provider_unavailable")]

MapError(e) ==
  IF e \in DOMAIN ErrorMapping THEN ErrorMapping[e] ELSE Mapping(500, "internal")

\* WriteErrorDetails: the envelope of the response.
WriteErrorDetails(e) == [status |-> MapError(e).status, body |-> MapError(e).code]

\* The client's own table: code -> sentinel.
Sentinel ==
  [unauthenticated |-> "ErrUnauthorized", token_expired |-> "ErrTokenExpired",
   token_revoked |-> "ErrTokenRevoked", forbidden |-> "ErrForbidden",
   not_found |-> "ErrNotFound", venue_not_found |-> "ErrVenueNotFound",
   conflict |-> "ErrConflict", idempotency_conflict |-> "ErrIdempotencyConflict",
   venue_ambiguous |-> "ErrVenueAmbiguous", invite_consumed |-> "ErrInviteConsumed",
   invite_expired |-> "ErrInviteExpired", validation_failed |-> "ErrInvalidArgument",
   plan_hash_mismatch |-> "ErrInvalidPlanHash", rate_limited |-> "ErrRateLimited",
   provider_session_expired |-> "ErrAuthExpired",
   provider_unavailable |-> "ErrUpstreamUnavailable"]

codeToSentinel(code) == IF code \in DOMAIN Sentinel THEN Sentinel[code] ELSE "other"

\* parseErrorEnvelope: a body that is no envelope ("none") wraps no sentinel.
parseErrorEnvelope(body) == IF body = "none" THEN "other" ELSE codeToSentinel(body)

\* Client.do: what the client's method returns for a call that the service
\* answered with e.
Received(e) == IF e = "ok" THEN "ok" ELSE parseErrorEnvelope(WriteErrorDetails(e).body)

\* "New codes MUST be added here in lockstep with the server's mapping table"
\* (client/http/errors.go:54-57): every sentinel the server maps comes back, and
\* only what it does not map arrives as an opaque error.
ASSUME Lockstep ==
  \A e \in ServiceErrors \cup ProviderErrors :
    Received(e) = IF e \in DOMAIN ErrorMapping THEN e ELSE "other"
=============================================================================
