# MvcContrib: TLA+ models and proofs

MvcContrib is a library for ASP.NET MVC applications.  It runs inside a web
server: its static state, its caches and its filter instances are shared by
concurrent requests, the state it keeps in a session passes through several
requests, and the code it calls (handlers, validators, transactions) may throw
at any point.  This directory models the parts whose correctness depends on
that, checks them with TLC on small instances and proves the most important
facts with TLAPS.

1. [Inventory](#inventory)
2. [Modules](#modules)
3. [The models, component by component](#the-models)
4. [Runs and bounds](#runs-and-bounds)
5. [Fairness](#fairness)
6. [Proofs](#proofs)
7. [What is not modelled](#what-is-not-modelled)
8. [Plan](#plan)

## Inventory

Paths are relative to `src/src`.  "Hard" names what a unit test would hardly
reach.  The lines at which each hazard bites are in `PROJECT.json`.

| component | state | operations | hard | what makes it correct |
|---|---|---|---|---|
| **Application bus** `MVCContrib/Bus.cs`, `PortableAreas/ApplicationBus.cs` | static instance and lock; list of handler types; handler factory | `Send`, `AddMessageHandler`, `AddAllMessageHandlers`, `Instance`, `SetMessageHandlerFactory` | double-checked lock that publishes the bus before it is filled; re-entrance of the initialiser; an unsynchronised list enumerated while it grows | one default bus; no null; no handler lost; a send calls the handlers registered when it began, in order, before any later one |
| **Command pipeline** `CommandProcessor/CommandProcessor` | result under construction, unit of work | `MessageProcessor.Process`, `ValidateCommand`, handlers, `MergeWith` | values flow between commands by type; a lazy condition sees earlier effects; stop-processing rules; exceptions anywhere | a rejected command runs nothing and invalidates once; contexts hold the latest values; messages are in order |
| **Rules engine** `RulesEngine.cs`, `CommandEngineConfiguration.cs` | static configuration and mapper | `Initialize`, `Process` | two different tests in the double-checked lock; a constructor that throws half way | one configuration; a mapper that is set vouches for a full configuration |
| **Validation rule builder** `Configuration/ValidationDefinition.cs` | rule instances being built | `Rule`, `Targets`, `RefersTo`, `ForType`, `Condition`, `Enforce` | options act on the last rule or on all; array rules are inferred | each rule is what its statement says |
| **Transaction filter** `MvcContrib.Castle/MvcTransactionAttribute.cs` | the transaction, in a field of a shared attribute | `OnActionExecuting`, `OnActionExecuted` | overlapping requests; every Castle call may throw | the action's outcome decides; nothing is rolled back twice; nothing leaks |
| **Rescue filter** `MVCContrib/Filters/RescueAttribute.cs` | the view's name, in a field of a shared attribute | `OnException` | autolocation overwrites the field | the right exceptions are rescued; the view exists and is the closest |
| **TempData filters** `MVCContrib/Filters` | TempData of the session | the three filters' handlers | entries marked for removal by whoever reads; several windows; redirects in a row | failures reach one view, once; parameters are the latest stored and survive reloads |
| **Derived type binder** `MVCContrib/Binders` | three static dictionaries, the salt, the framework's binders | `RegisterDerivedTypes`, `Reset`, `SetTypeStampSaltValue`, `GetTypeName`, the binder's `CreateModel` | registration over four dictionaries that is not atomic, two of them plain; salt changes between a page and its post | a stamp handed out binds to its type; Reset finds every binder |
| **Portable area resources and maps** `MVCContrib/PortableAreas` | static dictionaries of stores and of maps | area registration, lookup by path, `Map` | lookup by substring in registration order; settings of the host before and after registration | a path is served by its own area; a page carries what the host asked for |
| **Pagination, pager and data list** `MVCContrib/Pagination`, `UI/Pager`, `UI/DataList` | the executed page | totals, items, links, cells | count and query not atomic; a pager written before the list; 32-bit products; the last row of cells | first, last and total agree with the rows; links lead to rows; every row is shown once |
| **Menu builder** `MVCContrib/UI/MenuBuilder` | menu tree with flags | `Prepare`, `RenderHtml` | flags that stay between requests; one tree, many requests | what is rendered depends on the request |
| **SimplyRestful** `MVCContrib/SimplyRestful` | route list, resolver | `BuildRoutes`, `ResolveAction` | order of routes | each URL and method has one action |
| **Fluent controller** `MVCContrib/FluentController` | model state, chosen result | `CheckValidCall`, `Valid`, `Invalid`, `Other` | errors counted around the action | one result is chosen, and the right one |
| **Grid, input builders, HTML helpers** `MVCContrib/UI` | none that is shared | rendering | | |
| FluentHtml, TestHelper, WatiN, NVelocity, samples | | | | see [What is not modelled](#what-is-not-modelled) |

**Interactions.**  Portable areas announce themselves on the bus
(`PortableAreaRegistration` sends an event when an area registers; handlers in
the host answer).  `RulesEngine.Process` hands a message and its definition to
`MessageProcessor`, which the configuration filled by `Initialize` describes:
`RulesEngine` models when that configuration may be read, `CommandPipeline`
what is then done with it.  The filters interact through what the framework
lets them share: the attribute instance (transactions, rescue) and TempData,
which `PassParametersDuringRedirect` and `ModelStateToTempData` both use
without knowing of each other.  The fluent configuration makes the rules that
the pipeline walks: `ConfiguredPipeline` composes `ValidationDefinition` and
`CommandPipeline`.  The pager links to pages of the paged list that the next
request builds, and a data list lays its rows out: `Pagination` composes the
three.

## Modules

| module | models | extends or instantiates |
|---|---|---|
| `Bus` | the bus as the code has it | `EventBus` (refinement) |
| `EventBus` | what a bus promises | |
| `BusProofs` | proofs about `Bus` | `Bus` |
| `CommandPipeline` | one message going through the pipeline | `MessageProcessing` (refinement) |
| `MessageProcessing` | what the rules engine promises of a message | |
| `CommandPipelineProofs` | proofs about `CommandPipeline` and `ValidationDefinition` | `ConfiguredPipeline` |
| `RulesEngine` | initialisation and reads of the engine's static state | |
| `RulesEngineProofs` | proofs about `RulesEngine` | `RulesEngine` |
| `MvcTransaction` | the transaction filter | |
| `Rescue` | the rescue filter | |
| `RescueProofs` | proofs about `Rescue` | `Rescue` |
| `TempDataFilters` | the TempData filters in the requests of a session | |
| `FilterProofs` | proofs about `MvcTransaction` and `TempDataFilters` | both |
| `ValidationDefinition` | the fluent configuration of validation rules | |
| `ConfiguredPipeline` | the pipeline with the configuration that makes its rules | `CommandPipeline`, `ValidationDefinition` |
| `DerivedTypeCache` | registration, stamps, salt and reset of the derived type binder | |
| `DerivedTypeCacheProofs` | proofs about `DerivedTypeCache` | `DerivedTypeCache` |
| `AreaResources` | stores, maps and pages of portable areas, from start-up to requests | |
| `MenuBuilder` | a menu kept between requests | |
| `PageProofs` | proofs about `AreaResources` and `MenuBuilder` | both |
| `DataList` | the cells of a data list | |
| `Pagination` | paged lists, the pager and a user going from page to page | `DataList` |
| `PaginationProofs` | proofs about `Pagination` and `DataList` | `Pagination` |
| `MCBus`, `MCCommandPipeline` | instances for TLC | `Bus`; `ConfiguredPipeline` |
| `MCStatics` | an instance of the static state that threads share | `MCRulesEngine`, `MCDerivedTypeCache` |
| `MCFilters` | an instance of the three kinds of filters | `MCMvcTransaction`, `MCTempDataFilters`, `MCRescue` |
| `MCPages` | an instance of what pages are made of | `MCAreaResources`, `MCMenuBuilder`, `MCPagination` |
| `MCRulesEngine`, ... | the constants of one component | the module after `MC` |

Definitions called "Variant of X" are plausible mistakes in X; the project
lists, for every property, a variant under which TLC finds it violated.

`MCStatics`, `MCFilters` and `MCPages` put components side by side that share no
state: a behaviour picks its subject in the initial state, takes the steps of that
component and leaves the others as they began.  So do the two proof modules that
cover two components each.  Names that two components would share begin with the
component's: `TxSpec`, `RescueTypeOK`, `EngineNext`, `MenuInit`, `PagingSpec`.

## The models

### The bus

A step of `Bus` is one access to shared state.  `Check`, `Lock`, `Recheck`,
`Create`, `InitLoop` and `Unlock` are `InitializeTheDefaultBus`; `Fetch` is the
`return` of the getter and the continuation of its caller.  `Add`, `Grow`,
`Store`, `ReadVersion` and `Bump` are `ApplicationBus.Add`, with each read and
write that `List<T>.Add` makes: the size, the cell, the item, the version.  `Enum`,
`Move`, `Current`, `Rare` and `Handle` are one `Send`, with those of the list's
enumerator.  `SetInstance` and `SetMessageHandlerFactory` are the setters.  The
initialiser registers handlers through the public getter while it holds the lock;
the same actions model that path.  Two `Add`s that overlap on one list may lose a
store; the history variable `raced` records that, and the properties about
handlers speak of executions without it.

`EventBus` is the promise: registrations are kept; a send has to call the
handlers registered when it began that accept the message, once each and in
order; it may call handlers registered later, after those; it succeeds only when
none is left and no registration has returned meanwhile, and may fail before.  The
promise cannot be that a send calls no other handler: an `Add` stores its item
before its version, and an enumerator that looks in between takes the new item
along.  `Bus!Abstract` maps a bus to the handlers its list holds
(`RegisteredNow`; the last cell does not count while `Add` has grown the list and
not yet stored into it) and to the number of registrations that have returned
(`ReturnedNow`, the version), a send to the handlers of its beginning that its
enumerator has yet to reach (`TodoNow`) and its progress to whether it runs, has
succeeded or has failed (`StatusNow`).

### The command pipeline

`CommandPipeline` is sequential; what makes it hard is that every answer of the
application's code is possible.  `Select` evaluates a command's condition when
the loop reaches it, `Initialize` fills the command from what was returned so
far, `ScalarPasses`...`EndRules` are `ValidationEngine`, `Execute` runs a
handler, `EndCommand` merges the result and decides whether to go on.  A value
is the position in `log` of the call that returned it, so that "the latest" can
be stated.  `MessageProcessing` is the promise for one message: commands are
skipped, run in full, rejected or failed, in order.

### The rules engine

`CallInitialize`, `Check`, `Lock`, `Recheck`, `RegisterDefinition`, `RegisterThrows` and
`Store` are `RulesEngine.Initialize`; `CallProcess`, `ReadMapper`, `Lookup` and
`Map` are what `Process` reads of it.  The dictionary of definitions is read
without the lock while it may be written: any answer is then possible.  The two
tests look at different fields, the mapper without the lock and the
configuration with it.

### The transaction filter

One action per access to the attribute's fields, over a Castle that may throw a
`TransactionException` or another exception at every call: `CreateTransaction`,
`Begin`, `IsRollbackOnlySet`, `Commit`, `Rollback` and the manager's `Dispose`,
after which the field keeps its transaction.  `Handler` is where an exception
inside the `try` goes: a `TransactionException` is rethrown past the rollback.
`overlapped` records that two requests were in the filter at
once; ASP.NET MVC 4 caches attribute instances, so it can happen, and then only
the type invariant and termination hold.

### The rescue filter

`Ignore`, `Loop`, `Locate`, `NameView` and `CreateActionResult` are
`OnException`; the name of the view is the shared field.  The settings of the
attribute and the set of views that exist are chosen in the initial state.

### The TempData filters

A step is one handler of one request; the session lock makes requests follow
each other.  `Request` loads TempData, `OnActionExecuting` is the parameter
filter's search, `Action` the application, `CopyModelState`,
`StoreParameters` and `CopyToViewData` the filters' `OnActionExecuted` in any
order, `ExecuteResult` and `Save` the framework.  TempDataDictionary is the
framework's and modelled from how the filters and their tests use it: reading
or enumerating marks entries, `Keep` and redirects retain them, `Save` drops
what is marked and not retained.

### The validation rule builder

`ValidationDefinition` has one operator per method of the fluent interfaces, a
function from the rules of the builder to the rules after the call.
`Statements` are the expressions the interfaces allow, `Write` the calls of
one, `Written` those of a list of them on a new builder, `Enforce` what a message
definition adds to a command.  The rules of the
message definitions in `MCCommandPipeline` are made by them.  An expression is
the member it reads; `SameName` is the reflection that finds the field of the
same name.

### The derived type binder

Every access to one of the dictionaries is a step.  `Register` to `AddBinder`
are `RegisterDerivedTypes` (`Find` and `Insert`, `FindBinder` and `AddBinder`:
the `Add` of the cache's plain `Dictionary`, and of the one inside the framework's
`ModelBinders.Binders`, in two steps, which lose entries when they overlap), `Reset`, `RemoveBinders`, `ClearHashes`, `ClearTypes`,
`ClearCache` and `ResetSalt` are its `Reset`, `SetTypeStampSaltValue`,
`GetTypeName` and `Post` the salt's setter, the page helper and a post, whose
lookups `DetectInstantiationType` makes.  A stamp is the pair of type and salt:
the HMAC is taken as injective.  History variables say which pages were
rendered since the last reset, and whether operations overlapped that the code
does not protect from each other.

### Portable areas

`RegisterArea`, `RegisterDefaultRoutes`, `RegisterAreaEmbeddedResources`,
`BootStrap` and `EnsureAreasWebConfigExists` are the registration of an area,
in any order of areas; `MapAll` and `SetMap` are the host's settings, before,
between and after.  A request (`GetFile`, `Index`) looks a virtual path up in the
stores, by the order of registration and by substring (`StoreFromVirtualPath`),
and resolves the name inside the assembly: `Candidates`, `ActualResourceName`
and `IsPathResourceStream` follow `AssemblyResourceStore` and `AssemblyResourceLocator` in
both languages; `GetFileNameOnly` keeps the last two of the pieces that dots
separate.  Paths and names are sequences of words and separators, so that
prefixes and substrings mean what they mean in the code.  A page of an area is
rewritten by the map of its type, whose mappings are a list of at most one pair
for each of the two keys.

### The menu builder

`RenderHtml` begins a request, `Prepare` begins a list or prepares one item, in
the order of `MenuList.Prepare`: `todo` is what the walk has still to prepare
(the stack of the recursive calls, the next item first) and `entered` the lists
it has begun.  `Render` renders the tree in one step; the lists that are called
(`CalledLists`) and those that are written (`Open`) are the least sets that the
recursion reaches.  What the code stores in the items stays there:
`internalDisabled`, `itemSelected`, `prepared`, `url`, and `disabled`, which the
application sets and `PrepareList` overwrites.  Between requests the application
may add, remove and disable items; `off` records what it set, `emptied` the lists
that a request disabled because they were empty, so that what a page should show
is said without what earlier requests left.

### Pagination, pager and data list

A page is asked for, counted, queried and shown, and rows come and go between
any two of these steps; `lazy`, `delegate` and `custom` are the three
implementations of `IPagination`.  Rows are the numbers their query orders them
by; page numbers and what is computed from them are signed integers that wrap
around after `MaxInt`.  A view may write the pager before the list: only for a
`delegate` list that has kept no count does that make a difference
(`ShowPagerFirst`), as the other getters execute the query.  `PagerLinks` are the pages that `Pager` links to; `Request` is the user, who
follows one of them or asks for any page.  `walk` collects what a user has seen
who started at page 1 and went on with "next".  `DataList` is the arithmetic of the cells, across and down.

### Where the code departs from its documents

Seven statements of comments and tests are properties that a run of its own
refutes:

| property | says who | the code |
|---|---|---|
| `InstanceIsFull` | `ApplicationBusTester.cs:115-118` | publishes `_instance` before it is filled (`Bus.cs:34`) |
| `ThrownRollsBack` | `MvcTransactionAttribute.cs:25` | keeps the transaction in a field that overlapping requests share (`:36`) |
| `AnyThrownRollsBack` | `MvcTransactionAttribute.cs:25` | rethrows a `TransactionException` of the action without a rollback (`:128-131`) |
| `RendersSpecified` | `RescueAttribute.cs:10-11`, `:34-35`, `:53` | overwrites the specified view with the located one (`:185`) |
| `AlwaysLaidOut` | `DataList.cs:10`, `:108-111` | runs past the list when it is laid out down and the last of several rows has two cells or more to spare (`:277`) |
| `PagerFindsItems` | `DelegatePagination.cs:45` | does not execute the query for `TotalItems` (`:138`), which the pager reads first (`Pager.cs:130`) |
| `SkipsToTheItem` | `MenuList.cs:97` | renders `items[0]`, which need not be the single item |

Three more are stated in the modules or here, hold with exceptions only, and
are listed with the hazards they belong to:

- `ArgumentsArePassed` (`PassParametersDuringRedirectAttribute.cs:13-15`): a
  redirect that passes null, or a value that fits the query string, stores nothing
  (`:79`), and the object of an earlier redirect comes back.
  `ArgumentsAreLatest` is about objects that were stored.
- `FoundAnywhere` (`AssemblyResourceLocator.cs:31-34`, `:70-71`): the walk up the
  namespaces of a Visual Basic assembly stops one segment before a root of one
  segment (`:126`), and of a name with several dots only the last two pieces are
  looked for (`:134-140`).  `OwnAreaServes` asks for what the walk reaches.
- `FailuresReachTheView` (`ModelStateToTempDataAttribute.cs:7`): the parameter
  filter, and `TempDataToViewData`, enumerate TempData and so mark every entry,
  other filters' too (`PassParametersDuringRedirectAttribute.cs:137`).
  `FailuresReachTheViewUnread` is about applications without them.

A `RepeatColumns` of 0 makes one column in either direction (`DataList.cs:229`),
where the remark at `:46-47` has it a single row or column by the direction.
`Menu.cs:49-50` calls selected items "based on the requested url"; an item once
selected stays so (`MenuItem.cs:129`), and `CurrentIsSelected` claims no more
than that the current item is selected, and none whose path nobody asked for.

### Known limitations of the code

What the properties except, because the code does it and no document says
otherwise:

- `RulesEngine.Initialize` that throws half way leaves a configuration without
  a mapper, and the next `Initialize` returns at once (`RulesEngine.cs:41`).
- A transaction whose `Begin` throws is not disposed of: the framework does not
  call `OnActionExecuted` then.
- `AddAllMessageHandlers` called before the first read of `Instance` registers
  every handler twice (`Bus.cs:51`).
- A rule that names a member and then gets another target with `ForType` keeps
  the first one's array mark, and its field when the second has none
  (`ValidationDefinition.cs:36`, `:115`).
- `DerivedTypeModelBinderCache`: two registrations that overlap may lose an
  entry of the plain dictionary of bases, or of `ModelBinders.Binders`, and so may
  one that overlaps a `Reset`.
- Portable areas: the library's own files and the store for `/areas` shadow
  files of the same name; the store of an area answers for areas whose name it
  begins; the default map copies an unset title or body into new maps
  (`PortableAreaContent.cs:53`), and mappings chain when a placeholder is called
  like a default one.
- Menus: an `ActionUrl` stays that of the first request, a list once empty stays
  disabled (`MenuList.cs:139`); requests that overlap prepare each other's items.
- Transactions: a Castle call that throws in the catch, or the manager's `Dispose`,
  leaves the request with that exception (`MvcTransactionAttribute.cs:134-144`).
- Pagination: a page number whose offset overflows an `int` shows rows from
  elsewhere (`LazyPagination.cs:72`).

## Runs and bounds

| run | asks | bounds | answer |
|---|---|---|---|
| `bus_all` | all six operations called at once; is `EventBus` implemented? | 2 threads, 1 call each, 5 loaded types of which 2 are handlers, 1 unloadable | one default bus, no handler lost or skipped, every call returns; yes, while no `Add`s overlap |
| `bus_get` | is `Bus.Instance` full when it is returned? | 2 threads | **no**: the second reader gets it before its handlers are registered |
| `pipeline` | what becomes of a message and of its configuration? | 6 definitions of up to 3 commands and 3 rules, arrays of up to 3; every pair of statements over 3 members and 2 fields | the properties and the refinement of `MessageProcessing` hold; rules are as written |
| `statics`: engine | concurrent `Initialize` and `Process`, with failures | 2 threads, 3 calls each, 2 definitions | the engine is created once, the mapper vouches for it, and who has initialised it can use it, unless an `Initialize` failed |
| `statics`: binder | do stamps bind, and does `Reset` find every binder? | 2 threads, 5 calls in all, 2 bases that share a derived type, 2 salts | yes, but for registrations that overlap a reset or each other |
| `filters`: transactions | the filter's promises | 2 requests, overlapping or not | they hold while requests do not overlap; every request leaves the filter |
| `filters`: rescue | the filter's promises | 2 requests, 192 attributes over 3 exception types | they hold, the choice of view while requests do not overlap |
| `filters`: TempData | the filters' promises | 1 or 2 windows, 3 applications, 3 failures or parameters | they hold, but for the exceptions above |
| `pages`: areas | which store answers, with which page? | 3 areas in every order, one named by the beginning of another, C# and Visual Basic; 3 settings of the host | the area's own, with what the host last asked for |
| `pages`: menu | does a page depend on its own request only? | 3 requests, 2 at a time, 3 items in 3 lists, 2 changes of the tree | yes, but for the exceptions above and requests that overlap |
| `pages`: paging | do numbers, links and cells agree with the rows? | up to 6 rows, pages of 2 and 4, 2 changes of the rows, integers up to 7; 0 (that is 1), 2 and 3 columns | yes, but for overflow and the exceptions above |
| `tx_shared` | is a thrown action always rolled back? | 2 requests | **no**, not when requests overlap |
| `tx_exceptions` | whatever it throws? | 2 requests, one after the other | **no**, not a `TransactionException` |
| `rescue_specified` | is the specified view rendered when none matches? | 2 requests, one after the other | **no**, not after a view was located |
| `list_cells` | is every list laid out to its end? | as `pages` | **no**: 4 items laid out down in 3 columns are not |
| `pager_first` | does a pager written first find the items? | as `pages` | **no**, not those of a delegate list |
| `menu_skips` | does a list with one visible item show it? | as `pages` | **no**, not when it is not the first |

Why the bounds are enough.  In the bus, the engine and the binder every
interaction is between one thread that initialises or registers and one that
does something else.  The five loaded types of the bus
include one of each kind that `IsValidType` and `Creatable` tell apart, in
positions where skipping one shows.  The definitions of `pipeline` hold every
kind of rule before and after every other, and contexts that are filled by no,
one or two earlier commands; a call of the builder touches the last rule or all
rules of one `Enforce`, so two statements, in one `Enforce` or in two, show
every influence of one on another.  An attribute remembers only what the last request
left, so two requests show every influence of one on another.  For
TempData a third value is needed for a second redirect that replaces what
the first stored, with a view of one's own between; a second window is needed
for entries taken by another window.  For the binder five calls are enough for
two registrations of a shared type, a change of salt, a page and its post; two
salts, as only whether it changed matters.  The areas include one whose name
begins another's, one that embeds files in a parent namespace and one that knows
its root namespace only, which has one segment; all have a file of the same name,
two have one with several dots, and one has a file called like one of the
library's.  The menu has three lists, one inside another, and an item of each
kind, one that only some users may use, one shown though disabled, and one whose address
depends on the request that builds it; a third request is needed for what a
second leaves that overwrote the first.  In a paged list, integers up to 7 overflow
at the third page of 4, and 6 rows make three pages of 2 or two of 4, the last one
not full; 3 columns leave two cells to spare.  The `MaxCalls`, `EngineCalls`, `MaxItems`, `MaxIds`,
`MaxSettings`, `MaxRequests`, `MaxEdits`, `MaxChanges` and `MaxRows` bounds are in
the guards of the actions that begin a call, a request or a change.  In
the engine three calls let a thread process before and after it initialises.

Where a run ends, a `Finished` action stands for the end of the bounded work, so
that TLC's deadlock check shows that nothing else stops.  Only `pages` and `menu_skips`
run without the check: the application may stop asking for menus.

## Fairness

`FairSpec` of the bus is weak fairness of each thread's next step: the operating
system schedules a runnable thread.  Nobody is made to begin a call.  A thread
waiting for the lock is not starved because calls are finite in number, which
the code does not promise for ever but a process's initialisation does.
`CommandPipeline` is one thread, so its fairness is that the processor goes on,
and that application code returns or throws.  The other models state no
fairness: that their operations come to an end is what the deadlock check
shows for their bounded work, and nothing makes a user come back for a page.

## Proofs

For each of the eight proof modules, `tlapm <module>.tla` checks every theorem
with Z3, Zenon and LS4:

    for m in Bus CommandPipeline RulesEngine Filter Rescue \
             DerivedTypeCache Page Pagination
    do tlapm ${m}Proofs.tla; done

The theorems hold for every value of the constants that satisfies the modules'
named assumptions: any number of threads, requests, windows or calls, any types,
definitions, settings, areas, trees, rows, sizes and salts.  Most assumptions only
say of what kind the constants are and that null is none of them.  Those that say
more:

- `PaginationAssumption`: there are no more rows than an `int` can count, and page
  numbers and sizes are positive.
- `AreaAssumption`: the separator `/` is no word of an area's name or namespace,
  and no area is called like one of the library's stores.
- `PathAssumption`: a virtual path begins with `~`, and the word `areas` is in it
  once at most.  It excludes areas with a folder called `areas` inside, where a
  second key may match further down the path; the code does not treat them in
  any way of its own, and what it does with them is not claimed.
- `TreeAssumption`: an item is in one place of the tree and the root in none, as
  the fluent builder makes a new item for each place.  Without it an item may be
  reached, prepared and selected twice in one request.

Each component has one inductive invariant `IInv` (`TxIInv`, `MenuIInv`; TLC has
checked it on the run of the component before it was proved), a lemma for each action or each conjunct
that says it is kept, `NextKeeps` that combines them, and the theorems that
follow.  Where a theorem needs more than the module's other theorems do, the
additional strengthening has its own name and its own lemmas.

| theorem | establishes |
|---|---|
| `BusProofs!TypeCorrect`, `DefaultBusIsUnique`, `GetterIsReady` | types; one default bus; the getter never returns null |
| `BusProofs!InitialiserRegistersAll` | `HandlersRegistered`: no handler type is missed by the initialiser, until two `Add`s overlap |
| `BusProofs!SendKeepsThePromise` | `ImplementsEventBus`: every read and write of `Bus` is a step of `EventBus` or none, until two `Add`s overlap |
| `CommandPipelineProofs!TypeCorrect`, `RejectionInvalidates`, `ContextsAreLatest`, `MessagesAreOrdered` | types, and the pipeline's three invariants |
| `CommandPipelineProofs!ImplementsSafety` | the pipeline implements `MessageProcessing` without its fairness |
| `CommandPipelineProofs!AnyConfigurationAsWritten` | an `Enforce` of any number of statements adds what each of them says to any rules, and touches no other |
| `RulesEngineProofs!TypeCorrect`, `ConfigurationIsUnique`, `MapperImpliesDefinitions`, `InitializedWorks` | types, and the engine's three invariants |
| `FilterProofs!TxTypeCorrect`, `ActionDecides`, `NothingLeaks` | types; while requests do not overlap, `OutcomeDecides` and `CompletedOnce`, whichever calls throw |
| `RescueProofs!TypeCorrect`, `RescueIsItsOwn`, `RenderedViewExists`, `OwnViewFirst` | types, and the filter's three invariants |
| `FilterProofs!TypeCorrect`, `FailuresShownOnce`, `FailuresReach`, `ArgumentsLatest` | types, and the filters' three invariants |
| `FilterProofs!ReloadsFindParameters` | the action property `ParametersSurviveReload` |
| `DerivedTypeCacheProofs!TypeCorrect`, `StampsAlwaysBind`, `BindersAreCached` | types, and the cache's two invariants |
| `PageProofs!AreaTypeCorrect`, `OwnAreaServesAlways`, `PagesShowSettingsAlways` | types, and both promises of portable areas, in whatever order areas register and the host sets maps up |
| `PageProofs!MenuTypeCorrect`, `ShowsWhatIsVisibleAlways`, `CurrentIsSelectedAlways` | types, and both promises of the menu, for any tree and whatever earlier requests left in it |
| `PaginationProofs!TypeCorrect`, `NumbersBelongToRows`, `LinksReachAllRows`, `EveryRowHasItsCell` | types, and the three invariants of pages, links and cells |

The arguments:

- **Bus.**  That the second test finds no bus needs to know that only the owner
  of the lock is between the test and the creation (`LockDiscipline`), that a
  default bus implies an instance, and that the instance is never null again
  (`CreatedOnce`); the types of the list need that every index a thread holds
  stays in range while others write the list (`InBounds`, `Located`).
  `InitialiserRegistersAll` adds `NoneLost`: while `raced` is false, at most one
  thread is inside `Add` for a list and the last cell is its own (`OneByOne`), and
  the types the initialiser's loop has passed are on a bus (`Passed`).
  `SendKeepsThePromise` adds `Steady`: what each thread is after, that no cell is
  empty but the one being stored, and how far an enumerator has come among the
  handlers of its beginning (`Watching`).  The version need not be that of the
  items it sees, as an `Add` writes one after the other; that a `Send` which
  leaves handlers out fails rests on `Rare`, which an enumerator reaches only
  past the end or with a version that is no longer its own.  Each action is then
  shown to be a step of `EventBus` or a stutter: `Create` is a new bus, `Store` a
  registration, `Bump` its return; `Enum` begins, `Handle` delivers, `Rare` ends.
- **CommandPipeline.**  `Calling` says which end of the log belongs to the
  command under way, `Values` that the results remember the latest value of each
  type in the part they have merged, `Messages` how far the loops over rules and
  elements have come.  The refinement maps every action to one of
  `MessageProcessing` or to nothing.
- **ValidationDefinition.**  A statement appends one rule and everything it calls
  acts on that rule (`LastIsAppended`, `WriteAppends`); it reads its statement.
  What a list of statements writes is a recursive function, which exists
  (`WritesExists`) and of which every rule reads its statement (`WrittenReads`):
  both are inductions over the length of the list, stated as the absence of a first
  number for which they fail (`FirstNumber`), which needs no operator as parameter.
- **RulesEngine.**  The strengthening says how far the thread that fills the
  configuration has come (`Filled`): the definitions before `next` are
  registered, hence all are at the store of the mapper; a thread that throws
  leaves the configuration behind and the mapper null.  `Usable` adds what a
  thread that has initialised the engine, or waits for one that does, will find.
- **MvcTransaction.**  Types hold however requests overlap.  Until they do, one
  request is inside the filter (`Serial`), and `Stage` says for each place in it what the
  shared fields are to it and how its transaction may look; what earlier
  requests left in the fields never matters.
- **Rescue.**  What a request has established at its pc (`Established`: it is not
  exempt, no expected type before `next` can hold its exception, the one it found
  can) no other request can disturb; the rest is what is true of the shared
  field whoever wrote it last (`FieldNamesView`).  `OwnViewFirst` adds `Alone`,
  for requests that do not overlap.
- **TempDataFilters.**  Every failure that is stored is unshown, and one that a
  view has taken is marked and not retained (`Once`); stored parameters are the
  latest (`Latest`); an argument taken is kept or replaced (`Kept`); with one
  window and no filter that enumerates, the failures of the last failing redirect
  are stored and unmarked until a view takes them (`Carried`).
- **DerivedTypeCache.**  A hash is always of the type it is stored for
  (`Stamped`).  While no registration overlaps a `Reset`, neither is under way
  during the other (`Apart`), and what was handed out stays in the dictionaries
  (`Binding`); while registrations do not overlap each other either, a binder
  that is installed, or about to be, has its base in the cache (`Cached`).
- **AreaResources.**  The second half of the invariant relates what has been
  registered to what has been told: a store stands for each area that is done,
  each under a key of its own, and its map exists (`Registered`); each map has the
  master and holds the mappings the host last asked for (`Told`).  Neither
  property follows from the types: a page is right because a map is never
  replaced once an area or the host has it, and because adding a mapping keeps the
  others.  `OwnAreaServes` is a fact about the search: below an area's folder the
  first store with a matching key and a resource is the area's own, or a homonym.
  `KeyRemoved` says what taking the key out of a path leaves, `FullName` and
  `PartialName` what the names tried look like, `OnlyHomonyms` which other stores
  can match below an area's folder; the search of `SelectInSeq` is a least index
  (`FirstOf`).
- **MenuBuilder.**  While a request walks the tree alone, whatever the walk has
  come upon is either as this request leaves it (`Good`) or still to do
  (`Walked`), so that at the end of the walk every list that is reached from the
  root has been entered and every item in it is good.  It has to say so of each
  list entered, not of the tree: depth does not occur in it, and the rendering
  needs no induction, as `Called` and `Open` are least sets and the lists entered
  are one of the sets they are the least of.  `Marked` says that two requests
  under way both count as overlapping; `Remembered`, that a selected item links to
  a path somebody asked for, and that no list holds an item twice, which is what
  lets an item be removed and prepared without touching its neighbours.
- **Pagination.**  The rows of a page are the part of what was read at the
  computed offset (`Read`); links exist only while the page they are on has the
  numbers of the rows, so that what follows them begins before the last row
  (`Linked`); the rows seen are those up to this page (`Walked`).  An offset
  below the number of rows does not overflow, which is why pages reached by
  links need no exception.  For the cells, the number of a cell (counted across,
  or down) is a bijection between the cells that hold an item and the places of
  the items, and it orders the cells as they are read.

One property was corrected by its proof: `InitializedIsUsable` speaks of a thread
between calls, as while a `Process` is under way its message is new and the
result still that of the call before.
`Pagination` is stated so that it can be reasoned about: its rows are a sequence
in the order of the query, not a set that is sorted, and its integers wrap
around after a constant `MaxInt`, not at a power of two of unknown exponent.  So
are `AreaResources`, where resource names and keys are functions of the path and
the mappings of a map a list of at most two, `MenuBuilder`, where the recursion of
`MenuList.Prepare` is a walk with a stack, and `ValidationDefinition`, where what
statements write is a recursive function of their number.

Only model-checked, and why.  Liveness (`EveryCallReturns`, the fairness part of
`ImplementsMessageProcessing`) and `ENABLED` are beyond the prover, and so is what
the deadlock checks show.  Every other property that a passing run checks is a
theorem, with one difference: `ConfiguredAsWritten`, which does not depend on the
state, is checked for pairs of statements on a new builder, and
`AnyConfigurationAsWritten` says it of any number of them and any builder.  The
seven properties that are violated are counterexamples, not theorems.

## What is not modelled

Within the components above: setting `Bus.Instance` back to null and the setter
of the portable area maps, which only the tests use.  The unused protected
helpers of `RescueAttribute`.  Expressions: which properties a rule reads and
how a handler is found are given, not computed.  Letter case of resource paths,
which the code lowers on both sides.  Titles, icons, css classes, texts and
urls of menus and pagers.  The cell condition of the data list.  Statements of
a configuration that keep the object of one expression and use it in a later
one.

Components left out, with the reason.  SimplyRestful: a table of seven routes
matched by the framework against one request; the resolver it caches is the
same whoever caches it.  Regex and lambda routes: strings matched and built by
the framework.  The fluent controller and the stateless filters
(`PreconditionFilter` and its kin, `LayoutAttribute`): a decision in one step.
Grid, input builders, FluentHtml, HTML helpers, view data and collection
helpers: markup and single calls.  E-mail templates, WatiN: pure I/O.
NVelocity, the Windsor extensions: adapters to external libraries.  The test
helper, whose users are unit tests, the samples and the project template.

The repository's JavaScript is all in samples and documentation templates, and
all but about ten lines of it are copies of third-party libraries (jQuery, Dojo,
MicrosoftAjax): it is not part of the program and nothing of it is modelled.
The library is C#, and so is every line that `PROJECT.json` maps.

## Plan

Modelled, checked and proved: the bus, the pipeline with the configuration of its
rules, the engine, the filters, the binder, portable areas, the menu, pagination.
What would come next:

1. The seven refuted properties for corrected code, once the repository has it.
2. `CommandPipeline` under `RulesEngine`: one module in which `Process` runs with
   the mapper and the definitions that the engine's threads have filled.
3. `OwnAreaServes` without the assumption on folders called `areas`, which needs to
   be said of the last occurrence of a key.
