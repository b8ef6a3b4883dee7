----------------------------- MODULE MCAwsMerge -----------------------------
EXTENDS AwsMerge

CONSTANTS p, q, s, x, word, sso, bad, MaxLines

\* [profile p] and [p] are the same section; [x] is nobody's.
MCHeaders == {"[profile p]", "[p]", "[profile q]", "[sso-session s]", "[x]"}
MCKey == [h \in MCHeaders |->
             CASE h \in {"[profile p]", "[p]"} -> p
               [] h = "[profile q]" -> q
               [] h = "[sso-session s]" -> s
               [] OTHER -> x]
MCSession == [w \in {word, sso, bad} |-> IF w = sso THEN s ELSE None]

Line(b) == [body |-> b, nl |-> TRUE]
Text(bodies) == [i \in DOMAIN bodies |-> Line(bodies[i])]

\* A profile with a session, one without, and a file in disorder: a profile
\* without the session it names, a section of another spelling and with blanks,
\* and a denied directive.
MCSources ==
    {Text(<<"[profile p]", sso, "[sso-session s]", word>>),
     Text(<<"[x]", "[sso-session s]", sso, Empty, "[p]", Spaces, word, Empty, Empty, "[profile q]", bad>>),
     [Text(<<word, "[profile q]", sso, "[p]", sso, Spaces>>) EXCEPT ![6].nl = FALSE]}

\* Every file of up to MaxLines lines.
Bodies == MCHeaders \cup {word, sso, Spaces, Empty}
Full == UNION {[1..n -> Bodies] : n \in 0..MaxLines}
Unended == {t \in Full : t # <<>> /\ t[Len(t)] # Empty}
MCTargets ==
    {Text(t) : t \in Full} \cup {[Text(t) EXCEPT ![Len(t)].nl = FALSE] : t \in Unended}
=============================================================================
