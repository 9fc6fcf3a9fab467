------------------------------- MODULE Catalog -------------------------------
(***************************************************************************)
(* What the worker says of itself to whoever browses its catalog: the      *)
(* indicator_types view, the example queries of every function, of the     *)
(* schema and of the agent test tasks, each with the answer its            *)
(* description promises.  Texts are spelled as in Samples; titles,         *)
(* keywords and prose are left out.                                        *)
(***************************************************************************)
EXTENDS OfflineScalars, Samples

\* The indicators the catalog speaks of.
PublicIP   == Value(Quad(<<8, 8, 8, 8>>))
PrivateIP  == Value(Quad(<<10, 0, 0, 5>>))
EnrichedIP == Value(Quad(<<1, 2, 3, 4>>))
PublicIP6  == Value(Colon(<<8193, 18528, 18528, 0, 0, 0, 0, 34952>>))
ExampleDomain == Value(Dotted(<<Word(7), Word(3)>>))
EvilDomain == Value(Dotted(<<Word(4), Word(7), Word(3)>>))
ExampleURL == Value(URL("https", Dotted(<<Word(7), Word(3)>>)))
Digest(n) == Value(Dotted(<<Hex(n)>>))
NotAnIndicator == Value(Dotted(<<Hyphenated(16)>>))

\* Faulty: a type was added to the classifier and forgotten here.
indicatorTypesViewDefShort ==
    { <<"ipv4", PublicIP>>, <<"ipv6", PublicIP6>>, <<"domain", ExampleDomain>>,
      <<"url", ExampleURL>>, <<"md5", Digest(32)>>, <<"sha256", Digest(64)>> }
\* The view's rows, type and canonical example.
indicatorTypesViewDef ==
    { <<"ipv4", PublicIP>>, <<"ipv6", PublicIP6>>, <<"domain", ExampleDomain>>,
      <<"url", ExampleURL>>, <<"md5", Digest(32)>>, <<"sha1", Digest(40)>>,
      <<"sha256", Digest(64)>> }

----------------------------------------------------------------------------
\* The examples, by the function they call: value and documented answer.

TypeExamples    == { <<PublicIP, "ipv4">>, <<Digest(32), "md5">> }
PrivateExamples == { <<PrivateIP, TRUE>>, <<PublicIP, FALSE>> }
\* Said to yield no rows "before any network call".
TriagedExamples == { PrivateIP, NotAnIndicator }

\* VGI509: guaranteed to run without a feed.
ExecutableTypes   == { <<PublicIP, "ipv4">>, <<Digest(64), "sha256">> }
ExecutablePrivate == PrivateExamples
ExecutableTriaged == { PrivateIP, NotAnIndicator }

\* VGI152: tasks an agent is graded on.
TaskTypes   == { <<PublicIP, "ipv4">>, <<Digest(64), "sha256">> }
TaskPrivate == { <<PrivateIP, TRUE>>, <<PublicIP, FALSE>> }
TaskTriaged == { PrivateIP }

\* The schema's own queries: two of them do ask a feed.
SchemaTypes    == { <<PublicIP, "ipv4">> }
SchemaPrivate  == { <<PrivateIP, TRUE>> }
SchemaEnriched == { EnrichedIP, EvilDomain }

DocumentedTypes == TypeExamples \union ExecutableTypes \union TaskTypes \union SchemaTypes
DocumentedPrivate == PrivateExamples \union ExecutablePrivate \union TaskPrivate
                        \union SchemaPrivate
DocumentedOffline == TriagedExamples \union ExecutableTriaged \union TaskTriaged

----------------------------------------------------------------------------
\* functions.go:467-470 "the exact closed set of types IndicatorType can emit":
\* whatever a column holds, the view lists each type it comes out with, and
\* types its own examples as it says.
ViewIsTheOutputSpace ==
    \A i \in 1..Len(types) :
        /\ types[i] # Null => \E row \in indicatorTypesViewDef : row[1] = types[i]
        /\ \A row \in indicatorTypesViewDef :
              ~col[i].null /\ col[i].value = row[2] => types[i] = row[1]

\* functions.go:283-288, meta.go:59-64 and main.go:52-56: the documented
\* answers are the ones given, the reputation queries said to run without a
\* feed need none, and those said to enrich do ask.
DocumentedAnswersHold ==
    \A i \in 1..Len(col) : ~col[i].null =>
        LET v == col[i].value
        IN  /\ i <= Len(types) =>
                  \A ex \in DocumentedTypes : v = ex[1] => types[i] = ex[2]
            /\ i <= Len(privs) =>
                  \A ex \in DocumentedPrivate : v = ex[1] => privs[i] = ex[2]
            /\ v \in DocumentedOffline => Triaged(v)
            /\ v \in SchemaEnriched => ~Triaged(v)

=============================================================================
