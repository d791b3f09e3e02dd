------------------------------ MODULE MCLibrary ------------------------------
(* Cards for Library: a few names, shorter than MAX_MUSIC_NAME_LENGTH = 3, *)
(* as long as it or longer, up to MAX_MUSICS = 2 files of each kind.       *)
EXTENDS Library

a == <<"a">>
ab == <<"a", "b">>
abc == <<"a", "b", "c">>

Texts(n, S) == UNION {[1 .. k -> S \cup {NL}] : k \in 0 .. n}
UpTo2(S) == {<<>>} \cup {<<x>> : x \in S} \cup (S \X S)
File(name, text) == [name |-> name, text |-> text]
MCard(m, i, p) == [musics |-> m, images |-> i, playlists |-> p]

Ends(t) == Cardinality({k \in DOMAIN t : t[k] = NL})

\* Texts of a few lines of at most 3 characters, the last one ended or not.
Lines == {t \in Texts(4, {"a", "b"}) \cup {abc \o <<NL>>, a \o <<NL>> \o abc \o <<NL>>, abc} :
            Ends(t) <= MaxMusics /\ \A k \in 1 .. Len(t) - 3 : \E j \in k .. k + 3 : t[j] = NL}

\* Two files of the same name fill a playlist with one line.
MCCards ==
  {c \in {MCard(m, i, <<File(n, t), File(<<"q">>, <<"a", NL>>)>>) :
            m \in UpTo2({a, ab}) \cup {<<abc>>, <<abc \o a>>}, i \in UpTo2({a, abc}),
            n \in {a, abc \o a}, t \in Lines} :
     c.musics \in {<<a, a>>, <<ab, ab>>} => Ends(c.playlists[1].text) <= 1}

ASSUME MCFitting == \A c \in MCCards : Fitting(c)

\* The last line is not ended.
MCSeparated == {MCard(<<a>>, <<>>, <<File(a, <<"a">>)>>), MCard(<<a>>, <<>>, <<>>)}

\* The same music three times.
MCRepeated == {MCard(<<a>>, <<>>, <<File(a, <<"a", NL, "a", NL, "a", NL>>)>>)}

\* A name of MAX_MUSIC_NAME_LENGTH characters in each directory, and in a playlist.
MCLongName == {MCard(<<abc, a>>, <<abc, a>>, <<File(abc, <<"a", NL>>)>>)}
MCLongLine == {MCard(<<abc>>, <<>>, <<File(a, abc \o <<NL>>)>>)}
=============================================================================
