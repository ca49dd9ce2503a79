-------------------------- MODULE MCStreamExtractor --------------------------
(* Documents for StreamExtractor. *)
EXTENDS StreamExtractor

T(k)           == [at |-> 0, k |-> k, on |-> "", path |-> <<>>, id |-> "", of |-> ""]
Event(k, s)    == <<T("open"), [T(k) EXCEPT !.on = s]>>
DataEvent(s, p) == <<T("open"), [T("data") EXCEPT !.on = s, !.path = p]>>
Component(id, of) == [T("component") EXCEPT !.id = id, !.of = of]
Bound(id, of, p)  == [Component(id, of) EXCEPT !.path = p]
Str(p)         == [T("str") EXCEPT !.path = p]
Num(p)         == [T("num") EXCEPT !.path = p]
Key(p)         == [T("key") EXCEPT !.path = p]

Numbered(d)    == [i \in DOMAIN d |-> [d[i] EXCEPT !.at = i]]

Ends    == <<T("endobj"), T("endobj")>>
Space   == <<T("ws")>>
Chars(n) == [i \in 1..n |-> T("ch")]
Quote   == <<T("quote")>>
Close   == <<T("endobj")>>

Create(s) == Event("create", s) \o Ends
Delete(s) == Event("delete", s) \o Ends
Components(s, list) == Event("components", s) \o <<T("list")>> \o list \o <<T("endarr")>> \o Ends
Plain(id) == <<Component(id, "Plain"), T("attr")>> \o Close
InlineText(of, id, text, more) == <<Component(id, of), Str(<<>>)>> \o text \o Quote \o more \o Close

\* An inline text with an attribute behind it, then a plain component.
TextDoc == Numbered(Create("s") \o Space
    \o Components("s", InlineText("Text", "t", Chars(2) \o <<T("bs"), T("ch")>>, <<T("attr")>>) \o Plain("p"))
    \o Space \o Delete("r"))
\* Two surfaces, Markdown, a unicode escape, no white space.
EscapeDoc == Numbered(Create("s") \o Create("r")
    \o Components("s", Plain("p") \o InlineText("Markdown", "m", <<T("ch"), T("bs"), T("u"), T("x")>>, <<>>))
    \o Components("r", Plain("p")))
\* A component bound to a member of an object, which is streamed.
BoundDoc == Numbered(Create("s")
    \o Components("s", <<Bound("t", "BoundText", <<"a", "b">>)>> \o Close)
    \o DataEvent("s", <<>>) \o <<T("object"), Key(<<"n">>), Num(<<"n">>), Key(<<"a">>), T("object"),
           Key(<<"a", "b">>), Str(<<"a", "b">>)>> \o Chars(2) \o Quote \o Close \o Close \o Ends
    \o Space)
\* A string for the very path, and one for a path that ends like it.
StringDoc == Numbered(Create("s")
    \o Components("s", <<Bound("t", "BoundText", <<"b">>)>> \o Close \o <<Bound("m", "BoundMarkdown", <<"c">>)>> \o Close)
    \o DataEvent("s", <<"b">>) \o <<Str(<<"b">>)>> \o <<T("ch"), T("bs"), T("ch")>> \o Quote \o Ends
    \o DataEvent("s", <<"i", "b">>) \o <<Str(<<"i", "b">>)>> \o Chars(2) \o Quote \o Ends)
\* An array, and a value that replaces a larger one.
ArrayDoc == Numbered(Create("s")
    \o DataEvent("s", <<"a">>) \o <<T("array"), Num(<<"a", "0">>), Str(<<"a", "1">>)>> \o Chars(1) \o Quote \o <<T("endarr")>> \o Ends
    \o DataEvent("s", <<"a">>) \o <<T("array"), Num(<<"a", "0">>), T("endarr")>> \o Ends)

\* What the next stream brings to the surface, whatever was left of the first.
NextDoc == Numbered(Components("s", InlineText("Text", "t", Chars(1), <<>>)))

TwoStreams  == <<{TextDoc, EscapeDoc, BoundDoc, StringDoc, ArrayDoc}, {NextDoc}>>
OneText     == <<{TextDoc}>>
OneEscape   == <<{EscapeDoc}>>
TwoSurfaces == {"s", "r"}
=============================================================================
