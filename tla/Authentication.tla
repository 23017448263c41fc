--------------------------- MODULE Authentication ---------------------------
(***************************************************************************)
(* How a connection comes by AWS credentials: the Okta and the Azure AD    *)
(* provider, which log in to an identity provider and hand its SAML        *)
(* assertion to AWS STS, and the AWS profile and IAM alternatives.         *)
(*                                                                         *)
(* The services are external: what they answer is a record of outcomes     *)
(* chosen by the environment.  A text matters here only in being empty or  *)
(* not, except in the two conversions at the end.                          *)
(***************************************************************************)
EXTENDS Configuration

\* What the identity provider's login endpoint, Okta's application page, STS and
\* the profile file may answer.
LoginReplies == {"rejected", "not json", "no token", "empty token", "token"}
PageReplies == {"rejected", "no field", "empty field", "field"}
StsReplies == {"rejected", "empty", "credentials"}
ProfileReplies == {"empty", "credentials"}

Answers == [login : LoginReplies, page : PageReplies, sts : StsReplies,
            profile : ProfileReplies]

\* A step of the login: whether it produced a text, and whether it left a
\* message in errInfo.
Got == [text |-> TRUE, err |-> FALSE]
Nothing(err) == [text |-> FALSE, err |-> err]

\* The Okta provider's GetSessionToken and the Azure AD provider's
\* GetAccessToken: a reply other than OK, a body that does not parse and one
\* without the token each leave a message; an empty token does not.
GetSessionToken(a) ==
  IF a.login = "token" THEN Got ELSE Nothing(a.login # "empty token")
GetAccessToken(a) ==
  IF a.login = "token" THEN Got ELSE Nothing(a.login # "empty token")

\* The page is asked for with the one-time token only.
GetSAMLAssertionOkta(a) ==
  IF ~GetSessionToken(a).text THEN GetSessionToken(a)
  ELSE IF a.page = "field" THEN Got
  ELSE Nothing(a.page # "empty field")

\* What Azure AD returns is the assertion; the driver wraps it, so that a
\* non-empty token always gives a non-empty assertion.
GetSAMLAssertionAAD(a) == GetAccessToken(a)

GetSAMLAssertion(auth, a) ==
  IF auth = "okta" THEN GetSAMLAssertionOkta(a) ELSE GetSAMLAssertionAAD(a)

FetchCredentialsWithSAMLAssertion(a) ==
  CASE a.sts = "credentials" -> Got
    [] a.sts = "empty" -> Nothing(FALSE)
    [] OTHER -> Nothing(TRUE)

\* STS is called only with an assertion.
GetAWSCredentials(auth, a) ==
  LET assertion == GetSAMLAssertion(auth, a)
  IN IF assertion.text THEN FetchCredentialsWithSAMLAssertion(a) ELSE assertion

\* The credentials of a configuration; those of IAM are the user's own, and
\* Validate has seen that they are not empty.
Credentials(c, a) ==
  CASE Get(c, "authType") \in {"okta", "aad"} ->
         GetAWSCredentials(Get(c, "authType"), a)
    [] Get(c, "authType") = "aws_profile" ->
         IF a.profile = "credentials" THEN Got ELSE Nothing(FALSE)
    [] OTHER -> Got

-----------------------------------------------------------------------------
(* The two conversions.  A text is a sequence of characters.                *)

\* The characters of base64 that Okta writes as numeric references.
HexOf == [c \in {"+", "/", "="} |->
            CASE c = "+" -> <<"2", "b">> [] c = "/" -> <<"2", "f">>
              [] c = "=" -> <<"3", "d">>]

\* StringToInt in base 16, as a character: the NUL character if the two
\* characters are no number.
CharOfHex(h) ==
  IF \E c \in DOMAIN HexOf : HexOf[c] = h
  THEN CHOOSE c \in DOMAIN HexOf : HexOf[c] = h
  ELSE "NUL"

\* htmlString[j]: the NUL at the end of the string, and past it whatever the
\* memory holds (beyond).
CharAt(s, j, beyond) ==
  CASE j \in DOMAIN s -> s[j] [] j = Len(s) + 1 -> "NUL" [] OTHER -> beyond

\* Mutant: the loop steps over five characters of a reference, not six.
DecodeShortStep(s, beyond) ==
  LET decode[i \in 1..(Len(s) + 6)] ==
        IF i > Len(s) THEN <<>>
        ELSE IF i + 5 <= Len(s) /\ SubSeq(s, i, i + 2) = <<"&", "#", "x">>
        THEN <<CharOfHex(SubSeq(s, i + 3, i + 4))>> \o decode[i + 5]
        ELSE <<s[i]>> \o decode[i + 1]
  IN decode[1]

DecodeNumericCharacters(s, beyond) ==
  LET isRef(i) == /\ SubSeq(s, i, i + 2) = <<"&", "#", "x">>
                  /\ CharAt(s, i + 5, beyond) = ";"
      decode[i \in 1..(Len(s) + 6)] ==
        IF i > Len(s) THEN <<>>
        ELSE IF i + 2 <= Len(s) /\ isRef(i)
        THEN <<CharOfHex(SubSeq(s, i + 3, IF i + 4 <= Len(s) THEN i + 4
                                          ELSE Len(s)))>> \o decode[i + 6]
        ELSE <<s[i]>> \o decode[i + 1]
  IN IF Len(s) < 6 THEN s ELSE decode[1]

\* The padding the Azure AD provider appends to a token of n characters.
Padding(n) == CASE n % 4 = 1 -> 3 [] n % 4 = 2 -> 2 [] n % 4 = 3 -> 1 [] OTHER -> 0
=============================================================================
