-------------------------- MODULE MCCommandSession --------------------------
EXTENDS CommandSession, TLC

CONSTANTS x, r, b, j, k, u, w, o

\* r has two results, b goes on in the background, j reads JSON and k raw data
TheResponses ==
    r :> <<Json(u), Json(w)>> @@ b :> <<BackgroundStream, Message>>
    @@ j :> <<IoStream, Failure, Json(u)>> @@ k :> <<InteractiveStream>>

TheScripts == {
    <<Command(b), Assign(x, Command(r)), Variable(x)>>,
    <<Assign(r, Value(w)), Command(r), Command(k), Command(b)>>,
    <<Assign(x, Command(j)), Value(u), EndOfValues, Variable(x)>>,
    <<Command(b), Command(j), Value(u)>>,
    <<Command(j), Value(u), Value(w), Variable(x)>>,
    <<Assign(r, Value(w)), Assign(r, Command(b)), Assign(x, Variable(r)), Variable(x)>> }
=============================================================================
