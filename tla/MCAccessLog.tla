---------------------------- MODULE MCAccessLog ----------------------------
(***************************************************************************)
(* An instance of AccessLog: lines in the documented formats, with and     *)
(* without times, and one that is no request.                              *)
(***************************************************************************)
EXTENDS AccessLog

NumberOf == "200" :> 200 @@ "404" :> 404 @@ "502" :> 502 @@ "400" :> 400 @@ "512" :> 512
LowerOf == "Example.COM" :> "example.com" @@ "WWW." :> "www." @@ "JS" :> "js"
Records == {"41", "9002"}
SomeHosts == {<<"example.com">>, <<"Example.COM">>, <<"[", "2001", ":", "1", "]">>}
SomeSegments == {<<"orders">>, <<"41">>, <<"9002">>, <<"app", ".", "JS">>, <<"js">>,
                 <<"static">>, <<"a", ".", "b", ".", "php">>}
Decimals == {"0.512", "0.480"}
OwnSite == <<"example.com">>

Begins(request) ==
    <<"10.0.0.1", " ", "-", " ", "[time]", " ", Quote>> \o request \o <<Quote, " ">>
Combined(request, status, referrer) ==
    Begins(request) \o <<status, " ", "512", " ", Quote>> \o referrer
    \o <<Quote, " ", Quote, "agent", Quote>>
Get(target) == <<"GET", " ">> \o target \o <<" ", "HTTP/1.1">>
FromOutside == <<"https", "://", "other.org", "/">>

SomeLines ==
    {[class |-> 2, text |-> Combined(Get(<<"/", "orders", "/", "41">>), "200", FromOutside)
                            \o <<" ", "0.512", " ", "0.480">>],
     [class |-> 4, text |-> Combined(Get(<<"/", "app", ".", "JS">>), "404", <<"-">>)
                            \o <<" ", "0.512", " ", "-">>],
     [class |-> 5, text |-> Combined(Get(<<"/">>), "502", <<"-">>)
                            \o <<" ", "rt=", "0.512", " ", "urt=", Quote, "0.480", Quote>>],
     [class |-> 4, text |-> Combined(<<"control">>, "400", <<"-">>)],
     [class |-> 0, text |-> <<"not", " ", "a", " ", "request">>]}
=============================================================================
