------------------------------ MODULE Execution ------------------------------
(***************************************************************************)
(* The execution of one GraphQL operation, a query or a mutation: the code *)
(* generated from the schema (internal/graph/generated/generated.go) and   *)
(* the resolvers it calls (schema.resolvers.go), over the loader of        *)
(* comment pages that all of them share (handler.go:65).                   *)
(*                                                                         *)
(* A field of the operation, or an element of a list, is named by its      *)
(* response path.  It is resolved by its parent's struct, by a service or  *)
(* by the loader; an object runs its sequential fields in the order of the *)
(* operation, then all its concurrent ones (FieldSet.Dispatch of gqlgen),  *)
(* and waits for them.  What a service answers is a choice of the model.   *)
(***************************************************************************)
EXTENDS CommentPageLoader

CONSTANTS
  Operations   \* the operations: each the kind of its root and, for the path of
               \* every field it selects, the path of its parent, its type, its
               \* name and its place

VARIABLES
  op,       \* the operation that runs
  field,    \* where each of its fields is
  value,    \* what each field has been marshalled to
  errors,   \* the paths of the errors that have been added
  effects   \* root fields of a mutation, in the order they changed the store

execVars == <<op, field, value, errors, effects>>
allVars == <<vars, execVars>>

Root == "data"
Paths == DOMAIN op.selection
Nodes == Paths \cup {Root}

ExecutionTypeOK ==
  /\ TypeOK
  /\ op \in Operations
  /\ field \in [Nodes -> {"waiting", "running", "loading", "done", "absent"}]
  /\ value \in [Nodes -> {"none", "null", "value"}]
  /\ errors \subseteq Paths
  /\ effects \in Seq(Paths)

(***************************************************************************)
(* The fields of each type, as the generated code runs them: the type a    *)
(* field leads to, whether a null there is counted in Invalids, whether it *)
(* runs concurrently, and where its value comes from.                      *)
(***************************************************************************)

Entry(of, nonNull, concurrent, from) ==
  [of |-> of, nonNull |-> nonNull, concurrent |-> concurrent, from |-> from]

Scalar(nonNull) == Entry("scalar", nonNull, FALSE, "parent")
Part(of) == Entry(of, TRUE, FALSE, "parent")
Loaded == Entry("CommentConnection", TRUE, TRUE, "loader")
Adding(fields, name, entry) ==
  [f \in DOMAIN fields \cup {name} |-> IF f = name THEN entry ELSE fields[f]]

CommentScalars ==
  [f \in {"id", "postID", "parentID", "authorID", "text", "createdAt", "isDeleted"} |->
     Scalar(f # "parentID")]

Comment_replies == Loaded

\* Seeded fault: the parent of a comment is counted like its other fields.
CommentFieldsAllRequired ==
  Adding([f \in DOMAIN CommentScalars |-> Scalar(TRUE)], "replies", Loaded)

CommentFields == Adding(CommentScalars, "replies", Comment_replies)

\* A connection, of comments or of previews, has its list of edges and the info of
\* the page; an edge has the cursor of its node and the node.
ConnectionParts(edges) == [edges |-> Part(edges), pageInfo |-> Part("PageInfo")]
EdgeParts(node) == [cursor |-> Scalar(TRUE), node |-> Part(node)]
ListOf(edge) == [element |-> Entry(edge, TRUE, TRUE, "parent")]

CommentConnectionFields == ConnectionParts("CommentEdges")
CommentEdges == ListOf("CommentEdge")
CommentEdgeFields == EdgeParts("Comment")

PageInfo_endCursor == Scalar(FALSE)
PageInfo_hasNextPage == Scalar(TRUE)
PageInfoFields == [endCursor |-> PageInfo_endCursor, hasNextPage |-> PageInfo_hasNextPage]

\* The scalar fields of the model's structs that are pointers, and may be nil
Pointers == {"parentID", "endCursor"}

PostScalars ==
  [f \in {"id", "authorID", "title", "body", "commentsEnabled", "createdAt", "updatedAt"} |->
     Scalar(TRUE)]

Post_comments == Loaded

PostFields == Adding(PostScalars, "comments", Post_comments)

PostPreviewScalars ==
  [f \in {"id", "authorID", "title", "excerpt", "commentsEnabled", "createdAt", "updatedAt"} |->
     Scalar(TRUE)]

\* A preview has no comments: nothing of it is resolved.
PostPreviewFields == PostPreviewScalars

PostPreviewConnectionFields == ConnectionParts("PostPreviewEdges")
PostPreviewEdges == ListOf("PostPreviewEdge")
PostPreviewEdgeFields == EdgeParts("PostPreview")

Query_posts == Entry("PostPreviewConnection", TRUE, TRUE, "service")
Query_post == Entry("Post", FALSE, TRUE, "service")
Query_comment == Entry("Comment", FALSE, TRUE, "service")

QueryFields == [posts |-> Query_posts, post |-> Query_post, comment |-> Query_comment]

Mutation_createPost == Entry("Post", TRUE, FALSE, "service")
Mutation_deletePost == Entry("scalar", TRUE, FALSE, "service")
Mutation_addComment == Entry("Comment", TRUE, FALSE, "service")
Mutation_deleteComment == Entry("scalar", TRUE, FALSE, "service")
Mutation_setPostCommentsEnabled == Entry("Post", TRUE, FALSE, "service")

MutationFields ==
  [createPost |-> Mutation_createPost, deletePost |-> Mutation_deletePost,
   addComment |-> Mutation_addComment, deleteComment |-> Mutation_deleteComment,
   setPostCommentsEnabled |-> Mutation_setPostCommentsEnabled]

Types ==
  [Query |-> QueryFields, Mutation |-> MutationFields,
   Post |-> PostFields, Comment |-> CommentFields, PageInfo |-> PageInfoFields,
   CommentConnection |-> CommentConnectionFields, CommentEdges |-> CommentEdges,
   CommentEdge |-> CommentEdgeFields,
   PostPreviewConnection |-> PostPreviewConnectionFields,
   PostPreviewEdges |-> PostPreviewEdges, PostPreviewEdge |-> PostPreviewEdgeFields,
   PostPreview |-> PostPreviewFields]

Lists == {"CommentEdges", "PostPreviewEdges"}

\* How the code runs the field at path n
Info(n) == Types[op.selection[n].type][op.selection[n].field]

\* An operation has been parsed and validated against the schema before it is
\* executed: its fields form trees below the root, which is of the operation's kind,
\* and a field belongs to the type its parent leads to.
ASSUME SelectionsAreTrees ==
  \A o \in Operations : LET S == o.selection IN
    /\ Root \notin DOMAIN S
    /\ \A n \in DOMAIN S : S[n].parent \in DOMAIN S \cup {Root}
    /\ \A A \in SUBSET DOMAIN S : A # {} => \E n \in A : S[n].parent \notin A
ASSUME SelectionsAreTyped ==
  \A o \in Operations : LET S == o.selection IN
    /\ o.kind \in {"Query", "Mutation"}
    /\ \A n \in DOMAIN S :
         /\ S[n].type = IF S[n].parent = Root THEN o.kind
                        ELSE Types[S[S[n].parent].type][S[S[n].parent].field].of
         /\ S[n].type \in DOMAIN Types /\ S[n].field \in DOMAIN Types[S[n].type]
         /\ S[n].place \in Nat
    /\ \A m, n \in DOMAIN S : S[m].parent = S[n].parent /\ S[m].place = S[n].place => m = n
ASSUME OperationsAreFinite == \A o \in Operations : IsFiniteSet(DOMAIN o.selection)
ASSUME LoadsAreLoadedFields ==
  \A o \in Operations : \A n \in DOMAIN o.selection :
    Types[o.selection[n].type][o.selection[n].field].from = "loader" => n \in Loads

Parent(n) == op.selection[n].parent
Children(n) == {m \in Paths : Parent(m) = n}
Before(n) == {m \in Children(Parent(n)) : op.selection[m].place < op.selection[n].place}

\* What may be missing of the elements of a list: those beyond its end
Tails(n) == {{m \in Children(n) : op.selection[m].place > length} : length \in 0..Cardinality(Children(n))}

(***************************************************************************)
(* The steps of the execution.                                             *)
(***************************************************************************)

ExecutionInit ==
  /\ Init
  /\ op \in Operations
  /\ field = [n \in Nodes |-> IF n = Root THEN "running" ELSE "waiting"]
  /\ value = [n \in Nodes |-> "none"]
  /\ errors = {}
  /\ effects = <<>>

\* Seeded fault: the fields of an object all run at once.
ReadyAtOnce(n) == field[n] = "waiting" /\ field[Parent(n)] = "running"

\* A sequential field runs when its object has finished those before it, a
\* concurrent one when its object has finished all sequential ones.
Ready(n) ==
  /\ field[n] = "waiting" /\ field[Parent(n)] = "running"
  /\ \A m \in IF Info(n).concurrent THEN Children(Parent(n)) ELSE Before(n) :
       Info(m).concurrent \/ field[m] = "done"

Marshalled(n, v) ==
  /\ field' = [field EXCEPT ![n] = "done"]
  /\ value' = [value EXCEPT ![n] = v]

Fails(n) == Marshalled(n, "null") /\ errors' = errors \cup {n}

\* The value is there: a scalar is marshalled, an object or a list begins to run.
Begins(n) ==
  IF Info(n).of = "scalar"
  THEN \E v \in {"value"} \cup (IF op.selection[n].field \in Pointers THEN {"null"} ELSE {}) :
         Marshalled(n, v)
  ELSE /\ \E beyond \in IF Info(n).of \in Lists THEN Tails(n) ELSE {{}} :
            field' = [m \in Nodes |-> IF m = n THEN "running"
                                     ELSE IF m \in beyond THEN "absent" ELSE field[m]]
       /\ UNCHANGED value

\* A field of the parent's struct, or an element of its list
TakeFromParent(n) ==
  /\ Ready(n) /\ Info(n).from = "parent"
  /\ Begins(n)
  /\ UNCHANGED <<vars, op, errors, effects>>

\* The resolver of a root field calls its service, which may fail, also after it
\* has changed the store (the event of a stored comment is not published, the
\* answer to a commit is lost).
CallService(n) ==
  /\ Ready(n) /\ Info(n).from = "service"
  /\ \/ ~ ctxDone /\ Begins(n) /\ UNCHANGED errors
     \/ Fails(n)
  /\ \/ op.kind = "Mutation" /\ ~ ctxDone /\ effects' = Append(effects, n)
     \/ (op.kind = "Query" \/ n \in errors') /\ UNCHANGED effects
  /\ UNCHANGED <<vars, op>>

\* The resolvers of comments and replies
CallLoad(n) ==
  /\ Ready(n) /\ Info(n).from = "loader"
  /\ Load(n)
  /\ field' = [field EXCEPT ![n] = "loading"]
  /\ UNCHANGED <<op, value, errors, effects>>

CursorIsRefused(n) ==
  /\ Ready(n) /\ Info(n).from = "loader"
  /\ Fails(n)
  /\ UNCHANGED <<vars, op, effects>>

\* An argument cannot be converted to its type: the resolver is not called.
ArgumentsAreRefused(n) ==
  /\ Ready(n) /\ Info(n).from # "parent"
  /\ Fails(n)
  /\ UNCHANGED <<vars, op, effects>>

LoadReturns(n) ==
  /\ field[n] = "loading"
  /\ LoadReceives(n) \/ LoadGivesUp(n)
  /\ IF result'[n] \in Loads THEN Begins(n) /\ UNCHANGED errors ELSE Fails(n)
  /\ UNCHANGED <<op, effects>>

\* All fields of the object, or all elements of the list, are there: it is null
\* when one of them is that may not be.
Finish(n) ==
  /\ field[n] = "running"
  /\ \A m \in Children(n) : field[m] \in {"done", "absent"}
  /\ Marshalled(n, IF \E m \in Children(n) : Info(m).nonNull /\ value[m] = "null" THEN "null" ELSE "value")
  /\ UNCHANGED <<vars, op, errors, effects>>

FieldStep(n) ==
  \/ TakeFromParent(n)
  \/ CallService(n)
  \/ CallLoad(n)
  \/ CursorIsRefused(n)
  \/ ArgumentsAreRefused(n)
  \/ LoadReturns(n)

Runs ==
  \/ \E n \in Paths : FieldStep(n)
  \/ \E n \in Nodes : Finish(n)
  \/ \E d \in Loads : DispatcherStep(d) /\ UNCHANGED execVars

ExecutionNext == Runs \/ (EndContext /\ UNCHANGED execVars)

ExecutionSpec == ExecutionInit /\ [][ExecutionNext]_allVars

\* Goroutines that can run do run, timers fire, services answer; the context need
\* not end.  No step but the end of the context can be taken for ever, so one
\* condition for all of them is fairness to each.
ExecutionFairSpec == ExecutionSpec /\ WF_allVars(Runs)

(***************************************************************************)
(* Properties.                                                             *)
(***************************************************************************)

\* schema.graphqls: the fields that may be null
NullableInSchema ==
  {<<"Comment", "parentID">>, <<"PageInfo", "endCursor">>, <<"Query", "post">>, <<"Query", "comment">>}

Nullable(n) == <<op.selection[n].type, op.selection[n].field>> \in NullableInSchema

\* The paths from the root to n, without the root
Trail[n \in Nodes] == IF n = Root THEN {} ELSE {n} \cup Trail[Parent(n)]

\* No nullable field stands between n and an error at it or below it.
NulledByError(n) ==
  \E e \in errors :
    /\ n \in Trail[e] \cup {Root}
    /\ \A m \in Trail[e] \ Trail[n] : ~ Nullable(m)

\* The response, once it is given: nothing of the operation is still running;
\* whatever is missing lies under an error or beyond the end of a list; and a
\* place is null exactly when an error at it or below it cannot be contained by a
\* nullable field in between, with nullability as schema.graphqls declares it.
\* So no error of one field, of one load or of one service call takes away more of
\* the answer than the schema says, or less, however the fields were interleaved
\* (_Query 4525-4633 and the other object functions of the generated code).
ResponseIsSound ==
  field[Root] = "done" =>
    \A n \in Nodes :
      /\ field[n] \notin {"running", "loading"}
      /\ field[n] # "done" => \E m \in Trail[n] : m \in errors \/ field[m] = "absent"
      /\ field[n] = "done" =>
           \/ value[n] = (IF NulledByError(n) THEN "null" ELSE "value")
           \/ n # Root /\ Info(n).of = "scalar" /\ Nullable(n)

\* What a field of a mutation shows of the comments is read after its own effect
\* and before the effect of the next field, although the pages are read by a
\* dispatcher that the field's goroutine only waits for as long as its context
\* lasts (_Mutation 4057-4132, comment_loader.go:95-143).
ReadsFollowTheirEffect ==
  [][op.kind = "Mutation" =>
       \A d \in Loads :
         Len(pages'[d]) > Len(pages[d]) => Last(effects) \in Trail[Last(pages'[d])]]_allVars

\* Every operation is answered, also when its context never ends: a load is not
\* left waiting for a batch that nobody takes, nor an object for a field.
EveryOperationAnswers == <>(field[Root] = "done")
==============================================================================
