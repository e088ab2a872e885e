------------------------------ MODULE RichODBC ------------------------------
(* RichODBC.cpp: one object through which one thread talks to a database.     *)
(* A driver call may fail at any time, and CheckError, called after a         *)
(* failure, reconnects when a diagnostic record of the handle says that the   *)
(* link is gone (08S01): Reconnect runs in the middle of whatever the caller  *)
(* was doing, and may fail and be entered again itself.                       *)
(*                                                                            *)
(* `todo` is what the call under way still has to do, the next step first.    *)
(* Error texts, log files, times and bReconnectStat, which nothing tests, are *)
(* left out.                                                                  *)
EXTENDS Integers, Sequences

CONSTANTS MaxParams,  \* bound: parameters of a procedure, columns of a row
          MaxTodo     \* bound: steps pending, which bounds the nested Reconnects

ASSUME OdbcAssumption == MaxParams \in Nat \ {0} /\ MaxTodo \in Nat

(* A handle is null, live or freed; one of a connection that is live is       *)
(* allocated or connected.  A handle that a field forgets while it is live is *)
(* leaked, and of no further interest here.                                   *)
VARIABLES m_henv, m_hdbc, m_hstmt,
          m_retcode,     \* of the last driver call
          bIsConnected,
          m_siParamNo,   \* the last parameter, or the next column
          m_pszQuery,    \* the text, as a sequence of its pieces
          result,        \* what the last method or driver call returned
          todo,
          stage,         \* the caller: what it has done for a statement
          asked,         \* history: parameters set since BeginSP
          hungUp         \* history: Disconnect was called, and no connect since

handleVars == <<m_henv, m_hdbc, m_hstmt>>
textVars == <<m_siParamNo, m_pszQuery>>
callerVars == <<stage, asked>>
odbcVars == <<handleVars, m_retcode, bIsConnected, textVars, result, todo,
              callerVars, hungUp>>

(* The constructor does not set m_retcode.                                    *)
OdbcInit == /\ m_henv = "null" /\ m_hdbc = "null" /\ m_hstmt = "null"
            /\ m_retcode \in {"success", "noData", "error"}
            /\ bIsConnected = FALSE
            /\ m_siParamNo = 0 /\ m_pszQuery = <<>>
            /\ result = FALSE /\ todo = <<>>
            /\ stage = "none" /\ asked = 0 /\ hungUp = FALSE

Idle == todo = <<>>
Start(steps) == Idle /\ todo' = steps
At(step) == todo # <<>> /\ Head(todo) = step
Then(steps) == todo' = steps \o Tail(todo)

IsSuccess == m_retcode = "success"

(* A null or freed handle has no diagnostic records.                          *)
CheckError(handle, steps) ==
  \/ Then(steps)
  \/ /\ handle \in {"live", "allocated", "connected"}
     /\ Len(todo) < MaxTodo
     /\ Then(<<"Reconnect">> \o steps)
-----------------------------------------------------------------------------
InitODBC_keepsStatement == /\ m_siParamNo' = 0
                           /\ m_pszQuery' = <<>>
                           /\ hungUp' = FALSE
                           /\ UNCHANGED m_hstmt

(* The handles of environment and connection, which InitODBC sets to null     *)
(* too, are assigned by ConnectProcess.  Clearing the first bytes of the text *)
(* makes it empty.                                                            *)
InitODBC == /\ m_hstmt' = "null"
            /\ m_siParamNo' = 0
            /\ m_pszQuery' = <<>>
            /\ hungUp' = FALSE

(* One alternative for each call that may fail: the environment; its version  *)
(* or the connection; connecting.  InitODBC has switched pooling off.         *)
ConnectProcess ==
  /\ At("ConnectProcess")
  /\ InitODBC
  /\ \/ /\ m_henv' = "null" /\ m_hdbc' = "null" /\ m_retcode' = "error"
        /\ Then(<<"false">>)
        /\ UNCHANGED result
     \/ /\ m_henv' = "live" /\ m_hdbc' = "null" /\ m_retcode' = "error"
        /\ CheckError("live", <<"false">>)
        /\ UNCHANGED result
     \/ /\ m_henv' = "live" /\ m_hdbc' = "allocated" /\ m_retcode' = "error"
        /\ CheckError("allocated", <<"false">>)
        /\ UNCHANGED result
     \/ /\ m_henv' = "live" /\ m_hdbc' = "connected" /\ m_retcode' = "success"
        /\ Then(<<>>)
        /\ result' = TRUE
  /\ UNCHANGED <<bIsConnected, callerVars>>

ReturnFalse ==
  /\ At("false")
  /\ result' = FALSE
  /\ Then(<<>>)
  /\ UNCHANGED <<handleVars, m_retcode, bIsConnected, textVars, callerVars, hungUp>>

(* Disconnect allocates a statement and frees it, and leaves the freed handle *)
(* in m_hstmt.  Disconnecting frees the statements of the connection; it may  *)
(* be refused.                                                                *)
DisconnectHandles(dbc) ==
  /\ \/ m_hdbc = "connected" /\ m_hstmt' \in {"freed", "null"}
     \/ m_hdbc = "allocated" /\ m_hstmt' = "null"
     \/ /\ m_hdbc \notin {"connected", "allocated"}
        /\ m_hstmt' = IF m_hstmt = "live" THEN "freed" ELSE m_hstmt
  /\ \/ m_hdbc = "connected" /\ dbc = "allocated" /\ m_retcode' = "success"
     \/ dbc = m_hdbc /\ m_retcode' = "error"

(* What is still connected cannot be freed.                                   *)
ReleaseODBC(dbc) ==
  /\ m_hdbc' = IF dbc = "allocated" THEN "freed" ELSE dbc
  /\ m_henv' = IF m_henv = "live" /\ dbc # "connected" THEN "freed" ELSE m_henv

Reconnect ==
  /\ At("Reconnect")
  /\ \E dbc \in {"null", "allocated", "connected", "freed"} :
        DisconnectHandles(dbc) /\ ReleaseODBC(dbc)
  /\ Then(<<"ConnectProcess", "connected">>)
  /\ UNCHANGED <<bIsConnected, textVars, result, callerVars, hungUp>>

SetsConnected_ifTrue ==
  /\ At("connected")
  /\ bIsConnected' = (bIsConnected \/ result)
  /\ Then(<<>>)
  /\ UNCHANGED <<handleVars, m_retcode, textVars, result, callerVars, hungUp>>

(* The end of Reconnect and of Connect.                                       *)
SetsConnected ==
  /\ At("connected")
  /\ bIsConnected' = result
  /\ Then(<<>>)
  /\ UNCHANGED <<handleVars, m_retcode, textVars, result, callerVars, hungUp>>

Connect ==
  /\ Start(<<"ConnectProcess", "connected">>)
  /\ stage' = "none"
  /\ UNCHANGED <<handleVars, m_retcode, bIsConnected, textVars, result, asked, hungUp>>

(* bIsConnected stays as it is.                                               *)
Disconnect ==
  /\ Idle
  /\ DisconnectHandles(m_hdbc')
  /\ hungUp' = TRUE
  /\ stage' = "none"
  /\ UNCHANGED <<m_henv, bIsConnected, textVars, result, todo, asked>>
-----------------------------------------------------------------------------
(* Prepare: free the statement of the last query, allocate one.  Their        *)
(* failures are looked for at the environment.                                *)
FreesStatement ==
  /\ At("FreesStatement")
  /\ \/ m_hstmt = "null" /\ Then(<<>>) /\ UNCHANGED <<m_hstmt, m_retcode>>
     \/ m_hstmt = "live" /\ m_hstmt' = "freed" /\ m_retcode' = "success" /\ Then(<<>>)
     \/ /\ m_hstmt # "null" /\ m_retcode' = "error"
        /\ CheckError(m_henv, <<>>)
        /\ UNCHANGED m_hstmt
  /\ UNCHANGED <<m_henv, m_hdbc, bIsConnected, textVars, result, callerVars, hungUp>>

AllocatesStatement ==
  /\ At("AllocatesStatement")
  /\ \/ m_hdbc = "connected" /\ m_hstmt' = "live" /\ m_retcode' = "success" /\ Then(<<>>)
     \/ /\ m_hstmt' = IF m_hdbc \in {"null", "freed"} THEN m_hstmt ELSE "null"
        /\ m_retcode' = "error"
        /\ CheckError(m_henv, <<>>)
  /\ UNCHANGED <<m_henv, m_hdbc, bIsConnected, textVars, result, callerVars, hungUp>>

Prepare == <<"FreesStatement", "AllocatesStatement">>

BeginSP ==
  /\ Start((IF bIsConnected THEN <<>> ELSE <<"Reconnect">>) \o Prepare \o <<"BeginSP">>)
  /\ stage' = "building" /\ asked' = 0
  /\ UNCHANGED <<handleVars, m_retcode, bIsConnected, textVars, result, hungUp>>

BeginsText_keepsParamNo ==
  /\ At("BeginSP")
  /\ m_pszQuery' = <<"{call">>
  /\ Then(<<>>)
  /\ UNCHANGED <<handleVars, m_retcode, bIsConnected, m_siParamNo, result,
                 callerVars, hungUp>>

(* BeginSP, after Prepare.                                                    *)
BeginsText ==
  /\ At("BeginSP")
  /\ m_siParamNo' = 0
  /\ m_pszQuery' = <<"{call">>
  /\ Then(<<>>)
  /\ UNCHANGED <<handleVars, m_retcode, bIsConnected, result, callerVars, hungUp>>

(* SetParam without a number, while a procedure call is put together: one     *)
(* more piece of the text, then the binding.                                  *)
SetParam ==
  /\ stage = "building" /\ asked < MaxParams
  /\ asked' = asked + 1
  /\ m_pszQuery' = Append(m_pszQuery, IF m_siParamNo = 0 THEN "( ?" ELSE ", ?")
  /\ m_siParamNo' = m_siParamNo + 1
  /\ Start(<<"Binds">>)
  /\ UNCHANGED <<handleVars, m_retcode, bIsConnected, result, stage, hungUp>>

(* SetParam with a number, for a query.                                       *)
SetNumberedParam ==
  /\ stage = "ended"
  /\ Start(<<"Binds">>)
  /\ UNCHANGED <<handleVars, m_retcode, bIsConnected, textVars, result,
                 callerVars, hungUp>>

Binds ==
  /\ At("Binds")
  /\ \/ m_hstmt = "live" /\ m_retcode' = "success" /\ Then(<<>>)
     \/ m_retcode' = "error" /\ CheckError(m_hstmt, <<>>)
  /\ UNCHANGED <<handleVars, bIsConnected, textVars, result, callerVars, hungUp>>

EndSP ==
  /\ Idle
  /\ stage = "building"
  /\ m_pszQuery' = Append(m_pszQuery, IF m_siParamNo = 0 THEN "}" ELSE ")}")
  /\ stage' = "ended"
  /\ UNCHANGED <<handleVars, m_retcode, bIsConnected, m_siParamNo, result, todo,
                 asked, hungUp>>

SetQuery ==
  /\ Start(Prepare \o <<"SetQuery">>)
  /\ stage' = "ended" /\ asked' = 0
  /\ UNCHANGED <<handleVars, m_retcode, bIsConnected, textVars, result, hungUp>>

(* strncpy_s is given the size of the pointer as the size of the buffer: it   *)
(* ends the process if the query is longer than that.                         *)
CopiesQuery ==
  /\ At("SetQuery")
  /\ \/ m_pszQuery' = <<"query">> /\ Then(<<>>)
     \/ m_pszQuery' = <<>> /\ todo' = <<"ended">>
  /\ UNCHANGED <<handleVars, m_retcode, bIsConnected, m_siParamNo, result,
                 callerVars, hungUp>>
-----------------------------------------------------------------------------
(* The caller executes what it has put together, and looks at the rows.       *)
Asks(steps) ==
  /\ Start(steps)
  /\ UNCHANGED <<handleVars, m_retcode, bIsConnected, textVars, result, asked, hungUp>>

ExecSQL == stage \in {"ended", "executed"} /\ stage' = "executed" /\ Asks(<<"Executes">>)

Executes ==
  /\ At("Executes")
  /\ \/ /\ m_hstmt = "live" /\ m_retcode' = "success" /\ result' = TRUE
        /\ Then(<<>>)
     \/ /\ m_retcode' = "error" /\ CheckError(m_hstmt, <<"false">>)
        /\ UNCHANGED result
  /\ UNCHANGED <<handleVars, bIsConnected, textVars, callerVars, hungUp>>

FetchData ==
  /\ At("FetchData")
  /\ m_siParamNo' = 1
  /\ \/ /\ m_hstmt = "live" /\ m_retcode' = "success" /\ result' = TRUE
        /\ Then(<<>>)
     \/ /\ m_hstmt = "live" /\ m_retcode' = "noData" /\ result' = FALSE
        /\ Then(<<>>)
     \/ /\ m_retcode' = "error" /\ CheckError(m_hstmt, <<"false">>)
        /\ UNCHANGED result
  /\ UNCHANGED <<handleVars, bIsConnected, m_pszQuery, callerVars, hungUp>>

NextRecordSet ==
  /\ At("NextRecordSet")
  /\ \/ /\ m_hstmt = "live" /\ m_retcode' = "success" /\ result' = TRUE
        /\ Then(<<>>)
     \/ /\ m_hstmt = "live" /\ m_retcode' = "noData" /\ result' = FALSE
        /\ Then(<<>>)
     \/ /\ m_retcode' = "error" /\ CheckError(m_hstmt, <<"false">>)
        /\ UNCHANGED result
  /\ UNCHANGED <<handleVars, bIsConnected, textVars, callerVars, hungUp>>

(* GetData of the next column looks for no error.                             *)
GetData ==
  /\ At("GetData")
  /\ m_siParamNo <= MaxParams
  /\ m_siParamNo' = m_siParamNo + 1
  /\ \/ ~ IsSuccess /\ UNCHANGED m_retcode
     \/ IsSuccess /\ m_hstmt = "live" /\ m_retcode' \in {"success", "noData", "error"}
     \/ IsSuccess /\ m_hstmt # "live" /\ m_retcode' = "error"
  /\ Then(<<>>)
  /\ UNCHANGED <<handleVars, bIsConnected, m_pszQuery, result, callerVars, hungUp>>

(* GetData with the number and the type of the column.                        *)
GetDataOfType ==
  /\ At("GetDataOfType")
  /\ \/ ~ IsSuccess /\ Then(<<>>) /\ UNCHANGED m_retcode
     \/ /\ IsSuccess /\ m_hstmt = "live"
        /\ m_retcode' \in {"success", "noData"} /\ Then(<<>>)
     \/ IsSuccess /\ m_retcode' = "error" /\ CheckError(m_hstmt, <<>>)
  /\ UNCHANGED <<handleVars, bIsConnected, textVars, result, callerVars, hungUp>>

(* GetResult reads row after row into the same place.                         *)
GetsResult ==
  /\ At("GetsResult")
  /\ Then(IF result THEN <<"GetDataOfType", "FetchData", "GetsResult">> ELSE <<>>)
  /\ UNCHANGED <<handleVars, m_retcode, bIsConnected, textVars, result,
                 callerVars, hungUp>>

Reads == /\ stage = "executed"
         /\ \/ Asks(<<"FetchData">>) \/ Asks(<<"NextRecordSet">>)
            \/ m_siParamNo <= MaxParams /\ Asks(<<"GetData">>)
            \/ Asks(<<"GetDataOfType">>)
            \/ Asks(<<"FetchData", "GetsResult">>)
         /\ UNCHANGED stage
-----------------------------------------------------------------------------
OdbcNext ==
  \/ ConnectProcess \/ ReturnFalse \/ Reconnect \/ SetsConnected
  \/ FreesStatement \/ AllocatesStatement \/ BeginsText \/ CopiesQuery \/ Binds
  \/ Executes \/ FetchData \/ NextRecordSet \/ GetData \/ GetDataOfType \/ GetsResult
  \/ Connect \/ Disconnect \/ BeginSP \/ SetParam \/ SetNumberedParam \/ EndSP
  \/ SetQuery \/ ExecSQL \/ Reads

OdbcSpec == OdbcInit /\ [][OdbcNext]_odbcVars
-----------------------------------------------------------------------------
OdbcTypeOK ==
  /\ m_henv \in {"null", "live", "freed"}
  /\ m_hdbc \in {"null", "allocated", "connected", "freed"}
  /\ m_hstmt \in {"null", "live", "freed"}
  /\ m_retcode \in {"success", "noData", "error"}
  /\ bIsConnected \in BOOLEAN /\ result \in BOOLEAN /\ hungUp \in BOOLEAN
  /\ m_siParamNo \in 0 .. MaxParams + 1 /\ asked \in 0 .. MaxParams
  /\ Len(m_pszQuery) <= MaxParams + 2

Marks(n) == [i \in 1 .. n |-> IF i = 1 THEN "( ?" ELSE ", ?"]

(* Whenever the caller may execute its statement and the handle is live, the  *)
(* text is the one it has put together, with a mark for each parameter it has *)
(* set: a reconnect in the middle, which empties the text and the counter,    *)
(* leaves no statement that the rest of the text could be executed with.      *)
StatementWellFormed ==
  Idle /\ stage \in {"ended", "executed"} /\ m_hstmt = "live" =>
    m_pszQuery \in {<<"query">>,
                    <<"{call">> \o Marks(asked) \o <<IF asked = 0 THEN "}" ELSE ")}">>}

(* The flag by which BeginSP decides whether to reconnect is not TRUE without *)
(* a connection, however the reconnects were nested, unless the caller hung   *)
(* up (Disconnect leaves it as it is).                                        *)
ConnectedIsTrue == Idle /\ bIsConnected /\ ~ hungUp => m_hdbc = "connected"

(* Between two calls no field holds a handle that was freed, although a       *)
(* reconnect frees them all and may fail at any point after it, unless the    *)
(* caller hung up.                                                            *)
NoFreedHandle == Idle /\ ~ hungUp => "freed" \notin {m_henv, m_hdbc, m_hstmt}
=============================================================================
