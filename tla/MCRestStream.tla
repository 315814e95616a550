---------------------------- MODULE MCRestStream ----------------------------
(* Instances of RestStream for TLC.                                        *)
EXTENDS RestStream, TLC

CONSTANTS home, login, foreign, plain

MCUrls == {home, login, foreign, plain}
MCSafeUrls == {home, login, foreign}
MCOriginOf == home :> "api" @@ login :> "api" @@ foreign :> "cdn" @@ plain :> "api, http"

Text(t) == [type |-> "string", text |-> t]
One == [type |-> "integer", text |-> "1"]
MCNull == [type |-> "null", text |-> ""]
Texts == {"1", "2", "3", "4", "5"}
MCValues == {One, MCNull} \union {Text(t) : t \in Texts}

(* Digests: the registers and the ranks collide.                           *)
MCRegisterOf == [v \in MCValues |-> IF v.text \in {"1", "4"} THEN 1 ELSE 2]
MCRankOf == [v \in MCValues |-> CASE v = Text("1") -> 3 [] v = Text("2") -> 2
                                   [] v = MCNull -> 3 [] OTHER -> 1]

Stream(kind, records, ends, urls) ==
    [kind : {kind}, method : {"GET", "POST"}, limit : {0},
     records : {records}, ends : {ends}, urls : {urls}]
Sample(n, records, ends, urls) ==
    [kind : {"profile"}, method : {"GET"}, limit : {n},
     records : {records}, ends : {ends}, urls : {urls}]

(* Repetitions within a page and over pages, unusable keys, more keys than *)
(* allowed, mixed types, an empty page, links to another origin.           *)
MCFeeds ==
    Stream("extract", <<Text("2"), One, Text("1"), Text("2")>>, <<2, 4>>, <<home, login>>)
    \union Stream("extract", <<Text("2"), Text("2"), MCNull>>, <<1, 3>>, <<home, home>>)
    \union Stream("extract", <<One, Text("2")>>, <<2, 2>>, <<home, foreign>>)
    \union Stream("extract", [i \in 1 .. 6 |-> IF i = 1 THEN Text("1") ELSE
                              Text(<<"1", "2", "3", "4", "5">>[i - 1])], <<6>>, <<home>>)
    \union Stream("profile", <<One, Text("1"), Missing, One>>, <<2, 4>>, <<home, login>>)
    \union Stream("profile", <<Text("2"), Text("2"), Text("1"), MCNull, Text("4")>>,
                  <<0, 5>>, <<home, home>>)
    \union Stream("profile", <<MCNull, Missing>>, <<2>>, <<plain>>)
    \union Sample(2, <<Text("2"), Text("2"), One, Text("3")>>, <<2, 4>>, <<home, login>>)
====
