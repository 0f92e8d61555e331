----------------------------- MODULE ErrorPolicy -----------------------------
(***************************************************************************)
(* What an answer of Okta does to a sync: the status code the connector    *)
(* gives it (pkg/connector/helpers.go), and what the SDK makes of the code. *)
(***************************************************************************)

\* The HTTP answers that are told apart, one for all the rest of the 4xx; and a
\* request that fails or times out before there is an answer.
AnswerKinds == {"400", "401", "403", "404", "408", "409", "429", "500", "502", "503",
                "504", "transport"}

\* (Faulty variant: without the default for the rest of the 5xx.)
CodeOfListed(a) ==
    CASE a = "404" -> "NotFound"
      [] a \in {"429", "502", "503", "504"} -> "Unavailable"
      [] a = "408" -> "DeadlineExceeded"
      [] OTHER -> "Unknown"

\* handleOktaResponseErrorV5, around every listing.  What it looks for in the
\* error of a request without an answer, a timeout, is not there to be found:
\* the Okta client keeps the error's text only.
Code(a) ==
    CASE a = "404" -> "NotFound"
      [] a = "401" -> "Unauthenticated"
      [] a = "403" -> "PermissionDenied"
      [] a = "409" -> "AlreadyExists"
      [] a \in {"429", "500", "502", "503", "504"} -> "Unavailable"
      [] a = "408" -> "DeadlineExceeded"
      [] OTHER -> "Unknown"

\* An error that is put in words without %w, or was never given a code: the
\* settings of a page, and the SAML roles of the app.
Uncoded(a) == "Unknown"

\* (Faulty variant: every error is worth another try.)
VerdictPatient(code) == IF code = "NotFound" THEN "skip" ELSE "repeat"

\* The SDK repeats the page, however often; passes over the rest of the
\* action; or gives the sync up.
Verdict(code) ==
    CASE code \in {"Unavailable", "DeadlineExceeded"} -> "repeat"
      [] code = "NotFound" -> "skip"
      [] OTHER -> "fail"
=============================================================================
