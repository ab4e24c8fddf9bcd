----------------------------- MODULE MCCapture -----------------------------
EXTENDS Capture

MCGames == {"a", "b", "c", "m0", "m1", "s0", "s1"}
MCHost == [g \in MCGames |-> CASE g \in {"m0", "m1"} -> "multi"
                               [] g \in {"s0", "s1"} -> "station" [] OTHER -> g]
MCID == [g \in MCGames |-> IF g \in {"m1", "s1"} THEN 1 ELSE 0]
MCNonAdvert == [g \in MCGames |-> CASE g = "m0" -> 1 [] g = "m1" -> 2 [] g = "c" -> 3 [] OTHER -> 0]

F(k, g, n, s) == [kind |-> k, game |-> g, n |-> n, seq |-> s]
Beacons(g) == [i \in 1 .. LastPart + 1 |-> F("beacon", g, i - 1, i)]
Transfer(g) == <<F("auth", g, 0, 4), F("rsa", g, 0, 5), F("header", g, 0, 6)>>
    \o [k \in 1 .. LastPacket |-> F("data", g, k, 6 + k)]
Rotation == Beacons("m0") \o Beacons("m1")
Single(g) == Beacons(g) \o Transfer(g)
Two == Single("a") \o Single("b")
Rounds == Rotation \o Rotation \o Rotation
Multi == Rounds \o Transfer("m0") \o Rounds \o Transfer("m1")
Close == Rotation \o Rotation \o Transfer("m0") \o Transfer("m1")
Menu == <<F("menu", "s0", 0, 0), F("dl", "s0", 0, 0), F("menu", "s0", 0, 0), F("dl", "s1", 0, 0)>>
Mixed == Rounds \o <<F("auth", "m0", 0, 4), F("rsa", "m0", 0, 5), F("header", "m0", 0, 6),
    F("data", "m0", 1, 7), F("header", "m1", 0, 8), F("data", "m1", 1, 9), F("data", "m0", 2, 10),
    F("data", "m1", 2, 11)>>
Dump(b) == [i \in DOMAIN b |-> F("dump", "a", b[i], 0)]

MCSessions == {<<Transfer("a") \o Beacons("a")>>, <<Rotation \o Rotation \o SubSeq(Transfer("m0"), 1, 2)>>,
    <<Beacons("c") \o Beacons("c") \o Beacons("c") \o Transfer("c")>>, <<Mixed, Transfer("b") \o Beacons("b")>>,
    <<Single("a"), Single("b")>>, <<Single("a"), Single("a")>>, <<Two>>,
    <<Multi, Single("a")>>, <<Close, Close>>, <<Menu, Menu>>, <<SubSeq(Menu, 1, 2) \o Two>>,
    <<Single("a") \o Dump(<<1, 0, 3, 2>>), Dump(<<0, 1>>)>>}
=============================================================================
