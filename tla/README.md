# ModRuby in TLA+

A verification development beside [ModRuby](../src/README.md), the Apache module
that embeds Ruby: TLA+ models of the parts of the module that decide something,
TLC configurations that check them on small instances, and TLAPS proofs of what
matters most for instances of any size. Paths like `module.cpp:562` are below
`src/src/`, documents are below `src/doc/xml/`.

    tlc -config directives_routing.cfg MCDirectives.tla     # one run
    tlapm DirectivesProofs.tla                              # one proof module

`PROJECT.json` lists the components, the runs, a mutant for each property (an
operator named in a comment that starts with "Mistake:"), the source lines of
each definition, the findings, the hazards and the theorems.

## The system

Apache (prefork: one process per child, one request at a time in it) calls the
module in three ways: to read directives, when a child starts and ends, and for
every request.

| Component | State | Operations | What makes it correct |
|---|---|---|---|
| Configuration directives (`mod_ruby.c`, `common.c`, `module.h`) | one `ruby_config` per server (default route, options, one handler name, table of declared handlers), one `ruby_dir_config` per section | a command handler per directive; merge of nested sections | every line ends up where the request-time merge looks for it; nothing declared is lost |
| Request configuration and handler resolution (`module.cpp:274-608`) | the notes of the request | merge of server, section and handler tables into the notes; look-up of the content and the access handler | the handler that runs is the one the file asks for; variables have one order of precedence |
| Request hooks (`module.cpp:610-966`) | `r->status`, `r->handler`, notes; the map from routes to Ruby objects | access hook, three content handlers, their catch blocks | a refused request is not served; failures are reported; one object per route |
| Child life cycle (`mod_ruby.c:18-34`, `module.cpp:76-248`) | `ruby_handler`, the object map, the VM | start, shutdown of each handler, end of the VM | each handler is told to shut down exactly once, whatever the others raise |
| Embedded Ruby library (`ruby.cpp`) | registry of objects for the collector | require, create, call, convert exceptions | an object C++ uses is visible to the collector |
| RHTML scanner (`rhtml.lex`, `rhtml.cpp`, `ruby_rhtml.cpp`) | start condition, parser state, current line, text | a rule per lexeme; `read`, `change`, `end_line`, `finalize` | the program prints the text, runs the code, shows the values, in order |
| Script runner (`common.rb:84-151`, `handler.rb`) | `$stdout`, the working directory | `setup` around a script or page | the output of a script reaches its client, whole and once |
| Response (`response.rb`) | its buffer, the streams it saved | start, flush, clear, restore | the same, when it diverts `$stdout` inside a runner |
| Request body (`request.cpp`, `ruby_request.cpp`) | flags, copy, form and error of every wrapper; one stream per request | content with and without a block, params, read, readline, discard | each byte reaches Ruby once and in order; a form is whole; a flag that says "read" is right |
| Tables (`apr_table.cpp`, `ruby_apr_table.cpp`) | an array of entries; an iterator's index into it | get, set, add, merge, unset; each, keys, values | a loop sees every entry once, and reads past the end only if entries were removed under it |
| Parameters and look-ups (`request.cpp:352-377`, `util.cpp`, `request.rb:307-397`) | the parsed form and query of a wrapper | parse, decode; value, values, hasValue? | what the client meant is what a script finds |
| APR files (`apr.cpp`, `ruby_apr.cpp`, `ruby_apr_file_info.cpp`) | a static status; open directories; a file_info | rmdir, rm, mv, cp, mkdir, stat, md5 | success of a removal means it; retrying gets there; memory of a path is not trusted |
| Digests (`md5.cpp`, `sha1.cpp`, `endian.cpp`) | a buffer and a bit count | init, update, final | the digest does not depend on how reads cut the file |
| Wrappers (`ruby_request.cpp`, `ruby_server.cpp`, `ruby_connection.cpp`, `ruby_process.cpp`, `ruby_apr_pool.cpp`, ...) | a C pointer, and instance variables that keep other objects alive | constructors, deallocators, methods that return wrappers | what an object points into outlives it |

How they interact: directives fill the configuration the hooks merge; a hook
resolves a route, loads and calls a Ruby object through the Ruby library, or
hands the request to `ModRuby::Handler`, whose runner compiles a page with the
scanner and diverts the output. Ruby code may call back: it writes notes and
the status the hooks read afterwards, raises exceptions the hooks classify, and
runs other requests with `internal_redirect` while its own is under way. There
are no threads; what is hard is this re-entrance, the process-wide state
(`$stdout`, the object map, the shared configuration fields) it meets, the many
ways one step can fail, merges spread over many functions, and several objects
with state of their own over one thing: wrappers over one stream, iterators over
one array, Ruby objects over C memory whose end another object decides.

## Modules

| Module | Models | Extends / instantiates |
|---|---|---|
| `ConfigTables` | the tables, the merge functions and both handler look-ups, as operators | - |
| `Directives` | reading the configuration file, merging sections, configuring a request twice | `ConfigTables` |
| `ChildProcess` | a child from start to exit, its requests and their hooks | `ConfigTables` |
| `Template` | abstract: what a template means to eRuby | - |
| `RhtmlScanner` | scanner and parser, and Ruby reading the program they write | instantiates `Template` |
| `Output` | `$stdout` between the runner, responses and nested requests | - |
| `RequestBody` | the stream of a request's body and the wrappers that read it | - |
| `AprTable` | a table and the iterator over it, as operators | - |
| `Parameters` | query strings: splitting, decoding, merging into a table | instantiates `AprTable` |
| `RequestTables` | a script's look-ups, loops and changes of the form, the query and the CGI variables | `Parameters` |
| `Md5` | how md5 cuts, pads and counts a message, as operators | - |
| `AprFiles` | rmdir and the other calls on files; file_info and its digest | instantiates `Md5` |
| `Wrappers` | Ruby objects, the memory they point into, the collector | - |
| `MCDirectives`, `MCChildProcess`, `MCRhtmlScanner`, `MCRequestTables`, `MCAprFiles` | instances for TLC | their module |
| `DirectivesProofs`, `ChildProcessProofs`, `RhtmlScannerProofs`, `OutputProofs`, `RequestBodyProofs`, `RequestTablesProofs`, `AprFilesProofs`, `WrappersProofs` | theorems | their module, TLAPS |

### ConfigTables and Directives

A table of APR is a function from keys to values, `NULL` where absent: entries
are only written with "set" calls. One action per command handler
(`SetHandler`, `Declare`, ...) with the branch on the context it is used in;
`ReadLine` is what Apache does around each of them. A request is `BeginRequest`,
`MergeSection` from the outermost matching section inwards, `ConfigureAccess`
and `ConfigureContent`: each of the two hooks merges the whole configuration
into the same notes before it looks its handler up. A host has a configuration
of its own from the first directive in it, be it in a section of the host
(`HostOf`). The history variables `file` and `req.asked` record what the file
says, so that the properties compare what is found in the end with what was
written, across all functions between.

The properties leave out, by named conditions, what the code does otherwise:
the server's RubyHandler and RubyAccessHandler share the field
`ruby_config.handler`, and a section's default handlers are stored where nobody
reads them. `OptionPrecedence` speaks of the variables for which code and
documents agree; it says nothing of those a section and a handler define, nor of
those both handlers define (see Findings).

### ChildProcess

`stack` holds the requests of the child, the innermost last. `Resolve` is the
look-up of `ConfigTables`. For a hook that has begun there is one action per way
it can go on: `HookEmpty`, `HookUndefined`, `HookLoads`, `ScriptRuns`,
`ScriptCrashes` (`ruby_handler` is null because `child_init` ignores a failed
start), `ServedElsewhere`. Loading a handler takes three steps, since Ruby code
runs in the module and in the constructor: the module begins (`HookLoads`), ends
(`RequireReturns`, which asks the map, or `RequireRaises`), and the constructor
ends (`CreateReturns`, which stores and registers the object, or `CreateRaises`).
Ruby code is the environment, in a method, a module or a constructor: it sets the
status, writes a note, starts a nested request, returns, or raises one of the
kinds of exception the catch blocks tell apart. It reaches any request it may
hold (`Held`). A nested request begins with the status of the one it continues,
and a request that Apache serves for the page of an error with that of the error
(`BeginsWith`), which is Apache's own doing and external. A child that exited or crashed is replaced.

A nested request may thus store an object for the route whose constructor is
running, which is replaced when that ends. `OneObjectPerRoute` says what holds
all the same: only an object that was made meanwhile is replaced, and no method
of it is running. The replaced one is never shut down: `ShutdownReachesAll` speaks
of the objects of the map.

### Template and RhtmlScanner

One action per rule of the scanner; a template is any series of lexemes. The
Ruby program is represented by what Ruby makes of it: the mode its own lexer is
in, and the effects of the characters so far (print, run, evaluate, show).
`text` is what the parser has handed over, `whole` the text and the line after
it. `Template` has the same effects without a program, and `Meaning` is the
refinement mapping: the scanner's two state machines to the kind of block, the
program to what it does. A Ruby comment inside a code block, which swallows
what the parser appends to its line, is not represented.

### Output

`stdout` is the number of a buffer; each runner and each response makes one.
`SetupRunner`, `SetupFails`, `ScriptReturns` and `ScriptRaises` are the four
ways through `Runner#setup`; `StartResponse`, `FlushResponse`, `ClearResponse`
and `RestoreResponse` are the response's methods, which a run may call in any order:
started again before it is restored, a response saves its own buffer as the
stream to restore. A frame's `printed` and `disturbed` are history: what it
printed outside a response, and whether code it nested ended in one of the ways
that leave `$stdout` diverted, or it started a response twice.

### RequestBody

A byte is its position in the body; what it is ("cr", "lf", "nul") matters to
`readline` and to the form. `requests` holds the `Apache::Request` objects of
all hooks, each with `setup`, `read`, `content`, `form` and `error`. Apache is
`Reads`, `AtEnd` and `Fails`: `ap_get_client_block` returns any number of bytes
up to those asked for, 0, or -1 from some point on. `Content`, `ParseForm`,
`RefuseForm`, `Read`, `ReadLine` and `DiscardBody` are the calls; `content` with
a block is `BeginBlock`, a `FeedBlock` for each read and `EndBlock`, so that
`blocks` is a stack and the block may make any call on any object, or leave by
an exception (`BlockRaises`). With an encoding in the content type `m_read_line`
reads a second line (`ReadEncodedLine`). `max_content_length` is in `CheckLimit`;
the code compares the bytes of the response and then reads all the same, so that
it decides nothing but the error text.

`got` counts, for each byte, how often it was handed to Ruby by a call that keeps
no copy; a byte's holders are the objects whose copy it is in.

### AprTable, Parameters and RequestTables

A table is the sequence of its entries; `Fold` takes the case from a key. The
operations of libapr are written as its documentation has them and are external.
The iterator is its index. `HasNext` is `table::iterator::next`, which stops at
one index and not behind it; `At` reads whatever is there.

A client sends items (`Item`): a name, or a name, an equals sign and a value. Each
is spelled in pieces (`Piece`) that say what is written and what is meant by it:
a byte as itself, a blank as a plus, any byte as an escape of either case, and a
percent sign that begins no escape, since a digit is missing behind it or behind
its first digit (`Stray`). Every text without a NUL and an ampersand, well-formed
or not, is written by such pieces in one way (`MCRequestTables` evaluates this for
the texts of up to four bytes, `TextsHaveOneSpelling`), so that nothing a client can send
is left out; the two bytes end the text and the item. The pieces are the
reference the code is compared with: the form and the query are parsed by the
translation of `parse_query_string`, `split`, `url_decode` (a `Round` for each
turn of its loop) and `hex2int` with its arithmetic in unsigned bytes, which see
only `Joined`, the bytes. `loops` are the `each` calls under way, the
innermost last, each with the entries it began with and those it showed
(history). The body of a request is a form, something else, or has no type
(`type`): `params` is then the parsed form, a table of its content type (`OtherForm`), or an empty Ruby
Hash made for each call, which keeps no change (`ParsedForm`, `IsTable`). A look-up
(`ValuesOf`) is `has_key?`, which ignores case, and then a loop, which does not,
over the first table that has the name; `ValueAsGiven` says that it finds all the
client gave in that source and nothing of another, whichever source is asked
first. A loop that reads past the end is `wild`: what it reads is undefined,
so it may end or go on to any index up to `MaxIndex`.
`MCRequestTables` also evaluates a reference check of the iterator's other
operations (`IteratorVisits`).

### Md5 and AprFiles

Paths are a fixed tree (`DirectoriesAreTrees`: no path is above itself, however
far up); `kind` is what each names, `AboveOf` a path and the directories above it. `rmdir` takes a step per entry
(`RemoveEntry`, `EnterEntry`), one when a read fails (`FailRead`, which leaves the
directory open), one to close the directory and one to remove it (`CloseDir`,
`RemoveDir`), and `Return` on every early return,
with `stack` for its recursion, `status` for the static variable all calls
share and `handles` for directories nobody closed. Between the steps other
processes make and remove paths (`Other`). The memory of an entry's path is
freed before it is used (`apr.cpp:199`): at each use, in a recursive call too,
it names what it named, another path or none (`Named`). `rm`, `mv`, `cp` and
`mkdir` are one step each. A file_info keeps the pointer to its path's text;
`PathGoes` is the end of that text. `BeginMd5`, `HashChunk` and `EndMd5` read the
file in chunks of any length; the context is that of `Md5`, where a digest is
the blocks given to the transformation, with small `BLOCK` and `WORD` so that the
carry of the bit count and the padding's second block happen.

### Wrappers

An object has a kind, the memory it points into and the objects it refers to.
`held` is what Ruby code has in variables; `Reachable` is the least set that
holds it and is closed under references. `BeginRequest` makes the wrapper a hook
passes on; `RequestGives` and `ServerGives` are the methods that return others;
`NewPool`, `NewTable`, `NewFileInfo` and `Stat` are the constructors that take
memory of Ruby code's own. `NewFileInfoRaises` is the constructor as it is
registered, with two arguments for a function of three: the object stays as
`malloc` left it. `Collect` takes any unreachable object at any time, and a Pool's
memory with it. An object kept longer than its request or connection dangles;
nothing in the code prevents it, and `ReachableIsLive` leaves it out by name.

## Runs

| Run | Distinct states | Shows |
|---|---|---|
| `directives_routing` | 1 528 918 | with two handlers declared, every file of three more lines over a server, a virtual host, a section of the server and one of the host routes and merges as the file asks, and no line loses a declaration |
| `child_requests` | 670 715 | refusals, routes, objects, shutdown and reports, with one nested request from methods, modules and constructors, statuses of errors, loads that fail, handlers that raise, crashes, restarts; and a child that is told to stop exits |
| `rhtml_program` | 510 929 | every template of four characters, comments included: text stays in its strings, lines between blocks are complete |
| `rhtml_meaning` | 503 136 | refinement: templates of six effects do what `Template` says |
| `output_streams` | 2 635 371 | three scripts or handlers, nested or in a row, with responses started, restarted and restored: output goes to its client, once, whole |
| `request_body` | 415 812 | two objects over three bytes, two blocks deep, over a connection that may fail: bytes reach Ruby once, in order; forms are whole; loops end |
| `request_tables` | 399 865 | two items in two cases, with escapes and broken ones, in a form, another body or none; look-ups; a loop whose block makes two changes |
| `files` | 78 282 | a tree of two directories and two files under removal while others change it, freed paths name anything and reads fail; digests of up to ten bytes in blocks of four |
| `wrappers` | 118 669 | four objects over two requests, in every order of forgetting and collecting |
| `directives_access_asked`, `rhtml_last_line`, `output_nested` | to a violation | the findings below |

Bounds. The configuration properties compare at most the server and two
sections for two slots of a request; each pair of interfering directives needs
two lines, three give each pair a third to disturb it, and the two handlers that
are declared from the start cost ten lines more that the bound does not count
(`InitDeclared` is the state those lines lead to). Two nested requests are the
shortest re-entrance; with three objects (`MaxObjects`) a nested request can make
one for a route whose constructor runs, and another one while a method runs.
Two statuses, none and that of an error, are what the hooks' comparison tells
apart. Four characters give every
opening and closing mark a character or a line end on both sides; the abstract
mapping needs six effects because the value an expression shows is one. Three
runs give one nested inside another, inside a third, or two nested one after
the other; five buffers (`MaxBuffers`), the client's among them, give each a
buffer and one of them a response. Three bytes hold a CR LF and one more, or a NUL with a byte on each
side; two objects and two blocks give a block that reads from its own object and
from another; `Limited` is false, since the limit decides nothing but the error
text, and the theorems take it either way. A loop that shrinks, merges and adds needs two changes. A
nested directory with a file is the shortest path through the recursion's early
return, and with one directory handle per call three are enough to run out; ten
bytes in blocks of four with a length of two give a last block with and without
room for the length, and bits counted modulo 64 make the carry. Four objects
are a Pool, something that refers to it, and two others to be collected in
between. The theorems below have none of these bounds.

Deadlock is checked except for `Directives`, where Apache stops on a rejected
configuration and the bound ends the file, and `RhtmlScanner`, which stops at
the end of its input.

Fairness. `child_requests`: weak fairness of the shutdown loop
(`module.cpp:205-234`) and of the end of the VM, plain loops of the module over
calls; that these return is what the assumption says of Ruby's `shutdown`
methods. Requests need not end, so nothing is claimed of a child that was not
told to stop. `request_body`: weak fairness of the loop that feeds a block
(`request.cpp:253-275`), which is what "the client sends or hangs up, and blocks
return" amounts to. `files`: weak fairness of a removal's next step
and of the end of a digest, which are loops of the module, and of the script's
next call of `rmdir`, which `RetryingRemoves` speaks of: it is about a script that
calls again.

## Findings

Each is a run that expects a violation.

- `directives_access_asked`: a server's `RubyHandler` also runs as its access
  handler (`module.cpp:389`), against `module.cpp:565-566`.
- `rhtml_last_line`: what follows the last line end of a template is dropped
  (`rhtml.lex:143`), against "works exactly like eRuby" (`README.md:8-9`).
- `output_nested`: a script that serves another with an internal redirect loses
  what it prints afterwards (`common.rb:131`), against "No matter what, restore
  stdout" and `mod_ruby.module.api.apache.xml:412-418`.

Met while modelling, and visible in the models, but without a run of their own;
no property of the project asserts the opposite of what a document says in them.

- Variables: one that the content handler and the access handler define has the
  access handler's value when the content handler runs (`module.cpp:405`), though
  it "will have access to the SHEEPDIP handler table"
  (`mod_ruby.module.config.handlers.xml:520-522`); one that a section and a handler
  define has the handler's (`module.cpp:383`), though "directory contexts always
  complement and override server contexts"
  (`mod_ruby.module.config.contexts.xml:148-149`).
- Look-ups: `values` asks the form before the query (`request.rb:362`), where the
  order is said to be "queries, parameters, or CGI variables (in that order)"
  (`mod_ruby.module.api.apache.xml:223-225`).
- Objects: a handler whose constructor serves a nested request of its own route
  replaces the object that one made (`module.cpp:455`), which misses "Call shutdown
  on all handlers" (`module.cpp:205`).
- Refusals: an access handler that sets the status the request has already, as
  that of the error whose page is asked for, lets it be served
  (`module.cpp:957`), though `mod_ruby.module.config.handlers.xml:541-542, 582`
  describes that as the way to refuse.
- Responses: one that is started twice saves its own buffer as the stream to
  restore (`response.rb:88`), to which `restore` then returns, against "Restore
  buffered output to original output streams" (`response.rb:99`).

And: a `RubyDefaultHandler*` directive in a section is stored under another key than
the one looked up (`mod_ruby.c:132`), against "Directory config options override
server config options." (`module.cpp:308`); `terminate` in a script or page sends
its stack trace to the client (`common.rb:126`), against `request.rb:412-417`;
a server's `RubyAccessHandler` replaces its `RubyHandler` (`mod_ruby.c:303`);
a virtual host with a directive of its own sees nothing of
the global server, for want of a merge function (`mod_ruby.c:609`);
`RubyHandlerConfig` is refused in sections (`mod_ruby.c:349`) though
`mod_ruby.module.config.contexts.xml:173-175` speaks of it; an access handler
that is named but not declared declines (`module.cpp:607`); the longer mark that closes
a comment leaves the parser in it (`rhtml.lex:129`) and the text of comments
becomes code (`rhtml.cpp:54`); a line end in an expression and the written-out
escapes of a text are dropped (`rhtml.cpp:160`, `rhtml.lex:30-40`);
`max_content_length` compares the bytes of the response and its branch does not
return (`request.cpp:236`); a name that the form has in another case finds
nothing, not even in the query (`request.rb:362`); `hasValue?` with a value fails
for a name with several, which the table holds as one text
(`request.cpp:371`, `request.rb:313-316`); `rmdir` takes the success of a nested call for a
failure and returns success with the directory still there and open
(`apr.cpp:204`), and uses the path of an entry after its string is gone
(`apr.cpp:199`); the digest of a file that cannot be opened is what the memory
held, and a file_info whose stat failed crashes in it (`md5.cpp:37-45`);
`FileInfo.new` is registered with two of its three arguments
(`ruby_apr_file_info.cpp:90`).

## Proofs

All for any set of servers, sections, handlers, options, locations, any depth of
nesting, any length of a file, template or body, and any form or query.

- `Directives`: type correctness, then `RoutingInv`, in three parts: the tables
  hold what the file says (`StoredAsRead`), the merged sections hold what the
  file asks for the request (`MergedAsAsked`), the notes hold what both merge to
  after one or two initialisations (`NotesAsMerged`). The last part needs
  lemmas on each merge function of `ConfigTables`, one key at a time, and one that merging again into the same notes changes nothing
  (`MergedAgainAt`). From it: `ContentRouted`, `AccessRouted`, `OptionsMerged`,
  `NotesName`. `HandlersKept` is an action property.
- `ChildProcess`: `TypeOK` and `ChildInv` are inductive together only: that a
  hook stores its object under a route of the server rests on the notes holding
  nothing but the server's default route, which is part of `ChildInv`. It ties
  the map, the registry and the number of objects to each other, the shutdown
  counts to the part of the loop that is done, and each request's fields to the
  step it is at. While a constructor runs its route's object, if there is one, was
  made since (`since`), and the requests below are not in a method of the same
  route (`NestingInv`): a method runs only when its object is in the map, and then
  no constructor of the route begins. From it: `RefusedIsNotServed`,
  `ConfiguredRuns`, `RunningIsStored`, `HeldAreRooted`, `ShutdownIsComplete`,
  `FailuresAreReported`, `OneObject`.
- `RhtmlScanner`: `ScanInv` relates the scanner's condition, the parser's state
  and the mode of Ruby; from it `TextStaysText` and `LinesAreComplete`, and the
  refinement `PlainTemplatesAsInERuby`: initial states and every step of
  `PlainSpec` map to `Template`.
- `Output`: `OutputInv` says whose buffer each number is and that a text is
  in at most one place, a buffer or the client. From it `OutputTyped`,
  `PrintedIsSentOnce`, `SentWhereItBelongs`, `ScriptsPrintInside`. That an
  undisturbed script has sent all it printed (`WhatScriptsPrintIsSent`) needs
  `SentInv`: the stream each run had when it began is the one it gets back from
  the run nested in it (`Chain`), and what the script printed is sent already or
  in its own buffer (`PrintedKept`).
- `RequestBody`: `BodyInv` adds to the properties that nothing is reached or
  discarded that was not read (`ReadSoFar`), and that an object with a form has
  read all (`FormMeansRead`): without the second, `params` on an object whose
  copy ends in the NUL could copy more behind it. From it `BodyTypes`,
  `BytesReachOnce`, `BytesAreKept`, `FlagsAreRight`, `FormsStayLast` and the action
  property `BytesReachInOrder`. `FormsAreWhole` needs `WholeInv`: an object that
  alone took what is read so far has a copy of just that (`WholeSoFar`), and a
  form is that copy up to its first NUL (`FormOfCopy`).
- `RequestTables`: `IInv` adds to `TypeOK` that a loop over a table that did not
  shrink has shown just the keys up to its index, that its index is inside, and
  that the table still begins with the entries of its start, key by key
  (`LoopsInStep`): no operation that keeps the length moves an entry's key, which
  is the lemma `SetExtends` and its like. From it `TablesTyped`,
  `OnlyShrinkingIsWild` and the action property `LoopsShowAll`. `LookupsFind` is
  about tables that no call changed, which are what was parsed (`AsParsed`), and
  follows from the next result (`ParsedAnswers`, `ExactlyIs`).
  `QueriesMeant` says that the parser
  computes what the client meant, in four steps. The rounds of `url_decode` over a
  piece copy what is meant by it (`RoundsOverPiece`), which for a stray percent
  sign needs the piece behind it, so that `DecodeIs`, decoding undoes spelling.
  An item counts if it has a value (`ParseItemIs`). Splitting what was joined
  gives the texts of the items (`SplitIsTexts`), whatever is empty among them.
  And merging item by item keeps one entry for each name, in the order of the
  first spellings (`MeantTo`, proved for the first n items at a time in
  `AgainStep` and `NewStep`); `WalkIs` says that `keys` and `values` show all of
  that. What a recursive function computes is proved once (`Recursion`, from
  `Induction` on the natural numbers up to a bound), and each function of the
  model is an instance of it.
- `AprFiles`: `FilesInv` has three parts. Paths are in directories, and each
  call has a handle until it closes its directory (`TypeOK`). What a call has still to read lies in
  its directory, every call but the innermost has recursed, and a call that did not
  has one directory more open than before it, until it closes it (`CallsInv`), so
  that a success that empties the stack without a recursion is the innermost
  call's own. The md5 under way has taken in the bytes read (`HashInv`, with
  `Md5!Took`). From it `FilesTyped`; `SuccessMeansRemoved`, where `NothingBelow`
  carries the removal from the directory to all below it; and
  `DigestsAreOfBytes`, which rests on two lemmas of `Md5`: `UpdateTook`, that a
  context given the next bytes has taken them in wherever the read began and
  ended, with the carry of the bit count (`Carry`), and `FinalIs`, that what is
  transformed in the end is the padded message, with one block more when the
  length does not fit. They hold for every length, block and word size
  (`SizesFit`); the run has blocks of 4 and words of 64.
- `Wrappers`: `WrapperInv` adds that an object that points into a Pool's memory is
  the Pool or refers to it, that Apache's objects never do, and that no half-made
  object is reachable. `ReachableAfter` is the lemma each step rests on: what is
  reachable afterwards was reachable, or is new and refers to what was held. From
  it `WrapperTypes` and `ReachableStaysLive`.

Assumptions. `NULL`, line ends and escapes are none of the values they are told
apart from; a variable of the user is none of the directives' own keys
(`OptionsAreUserKeys`); the configuration of a child is one the directives build
(`ConfigurationIsBuilt`, which is what `RoutingInv` says of the tables); special
characters are characters; names and values are sequences of bytes
(`ScriptsUseTexts`), what a client writes is spelled in pieces
(`SpellingsArePieces`) and `NULL` is neither a spelling nor a table
(`NullIsNothing`). TLC evaluates each of them.

Model-checked only: liveness (`ShutdownCompletes`, `BlocksEnd`,
`RetryingRemoves`), which the prover does not reach; the reference check of the
iterator's `seek`, `first`, `last` and `prev` (`IteratorVisits`), which no state of
a run depends on; and the violated claims. `RetryingRemoves` has the premise that
from some point on the script does nothing but call `rmdir` and the freed paths
name the entries (`StepRmdirNamed`): with paths that name something else each time, a
directory that holds a directory is neither removed nor left open, and stays.

## Hazards

`PROJECT.json` lists them at their lines with the properties that would catch
them. Those without a property: a child whose VM did not start crashes on its
first script (taken as a step, nothing is promised of it); comments of a template; line ends in
expressions; default handlers of a section; the working directory, which the
runner changes for the whole process (`common.rb:110`) and never restores.

## Not modelled

- Accessors of Apache structures (`ruby_request.cpp`, `ruby_server.cpp`,
  `ruby_connection.cpp`, `ruby_process.cpp`, and the C++ classes under them):
  each reads or writes one field of a structure that is Apache's. What
  `Wrappers` says of the pointer is what can go wrong in them.
- The Ruby library's conversions, eval helpers and backtraces (`ruby.cpp`): no
  state; its registry, `startup`, `require` and exceptions are in `ChildProcess`.
- `RubyEnv` (`mod_ruby.c:223-243`), which sets variables of the process that
  nothing in the module reads.
- The transformation of a block in `md5.cpp`, `sha1.cpp` and `endian.cpp`: taken from
  libraries, functions of their input alone.
- `chmod`, the helpers for the names of paths, moves of directories, `send_file`:
  one call of libapr or Apache each. `url_encode` has no caller.
- Cookies, headers, status lines and redirects of `response.rb` and `request.rb`:
  texts put together from their arguments; the exceptions they raise are in
  `ChildProcess` and `Output`.
- A Ruby comment inside a block of a template, and the files the parser opens.
