----------------------------- MODULE MCContainer -----------------------------
(* The TLC instance of Container: a provider like the blog's user and       *)
(* database ones (a singleton, repositories and controllers on top of it)  *)
(* and one that binds a logger, with an override for one consumer.         *)
EXTENDS Container

CONSTANTS Connection, Repository, Controller, Logger, FileLogger, NullLogger, Scope, Nobody, loggers

Auto(life, deps) == [life |-> life, deps |-> deps, guard |-> TRUE, make |-> "new"]
Manual(life, deps, make) == [life |-> life, deps |-> deps, guard |-> FALSE, make |-> make]
Fun(pairs) == [k \in {p[1] : p \in pairs} |-> (CHOOSE p \in pairs : p[1] = k)[2]]

Data ==
  [binds |-> Fun({<<Connection, Manual("singleton", <<>>, "new")>>,
                  <<Repository, Auto("singleton", <<Connection, Logger>>)>>,
                  <<Controller, Auto("transient", <<Repository, Logger>>)>>}),
   contexts |-> Fun({<<<<Repository, Logger>>, FileLogger>>}),
   instances |-> {}, tags |-> <<>>, boots |-> Connection]

Logging ==
  [binds |-> Fun({<<NullLogger, Auto("transient", <<>>)>>,
                  <<Logger, Manual("transient", <<NullLogger>>, "same")>>,
                  <<Scope, Auto("scoped", <<Logger, Connection>>)>>}),
   contexts |-> <<>>,
   instances |-> {FileLogger}, tags |-> Fun({<<loggers, <<FileLogger, NullLogger>>>>}),
   boots |-> Scope]

Providers == [data |-> Data, logging |-> Logging]
Keys == {Connection, Repository, Controller, Logger, FileLogger, NullLogger, Scope, Nobody}
===============================================================================
