----------------------------- MODULE MCSettings -----------------------------
(***************************************************************************)
(* Settings for TLC.  A text is made of up to four parts, where the two    *)
(* characters that open or close a comment or begin a name may be one      *)
(* part; it stands alone or after a component's name, so that the parts    *)
(* need not spell the name of their component.                             *)
(***************************************************************************)
EXTENDS Settings

Underscores == <<"underscore", "underscore">>

Parts == {<<class>> : class \in Classes}
         \cup {<<"/", "/">>, <<"/", "*">>, <<"*", "/">>, Underscores, <<>>}

\* A component's name.
Named == Underscores \o <<"other", "space">>

AfterName(texts) == {Named \o text : text \in texts}

\* Names and arguments only, so that the lists grow.
ListTexts ==
  LET Words == {<<>>, <<"other", "space">>, Underscores \o <<"newline">>}
  IN AfterName({a \o b \o c \o d \o e \o f : a, b, c, d, e, f \in Words})

\* A text of any parts, alone, before a name, or behind one.
AnyTexts ==
  LET Some == {a \o b \o c : a, b, c \in Parts}
  IN Some \cup {text \o Named : text \in Some} \cup ListTexts
       \cup AfterName({a \o b \o c \o d : a, b, c, d \in Parts})

\* One comment, closed, after a name.
CommentTexts ==
  LET Inside == {<<>>, <<"other">>, <<"space">>, <<"/">>, <<"*">>}
  IN AfterName({<<"/", "*">> \o a \o b \o c \o <<"*", "/", "newline">> :
                  a, b, c \in Inside})
=============================================================================
